---- MODULE Spec2Model ----
(***************************************************************************)
(* A model of migrate_gitlab.py: the CI include rewriter                   *)
(* (prefix_infra_includes), the group hierarchy ensurer (ensure_group),    *)
(* the issue reconciler (reconcile_issues, close_ce_issue_with_link) and   *)
(* the batch orchestrator (migrate_repo, main).                            *)
(*                                                                         *)
(* Python strings are modelled as sequences of one-character strings, so   *)
(* that "in", startswith, lstrip, strip, splitlines, join, re.sub and      *)
(* quote are computed character by character, over the characters with    *)
(* the code points 0..255.                                                 *)
(***************************************************************************)
EXTENDS Integers, Sequences, FiniteSets, TLC

(***************************************************************************)
(* String literals of the source.                                          *)
(***************************************************************************)
\* "include" (line 211)
INCLUDE_WORD == <<"i", "n", "c", "l", "u", "d", "e">>
\* "include:" (line 228)
INCLUDE_KEY == <<"i", "n", "c", "l", "u", "d", "e", ":">>
\* "infra/" (lines 211, 215, 217)
INFRA == <<"i", "n", "f", "r", "a", "/">>
\* "viridien/" (the look-behind of line 217, the default of line 442)
VIRIDIEN == <<"v", "i", "r", "i", "d", "i", "e", "n", "/">>
\* The characters with the code points 0..255, in their order. A character
\* that has no notation of its own here is written by its code, \xhh.
Characters ==
    <<
       "\\x00", "\\x01", "\\x02", "\\x03", "\\x04", "\\x05", "\\x06", "\\x07",
       "\\x08", "\t", "\n", "\\x0b", "\f", "\r", "\\x0e", "\\x0f",
       "\\x10", "\\x11", "\\x12", "\\x13", "\\x14", "\\x15", "\\x16", "\\x17",
       "\\x18", "\\x19", "\\x1a", "\\x1b", "\\x1c", "\\x1d", "\\x1e", "\\x1f",
       " ", "!", "\"", "#", "$", "%", "&", "'",
       "(", ")", "*", "+", ",", "-", ".", "/",
       "0", "1", "2", "3", "4", "5", "6", "7",
       "8", "9", ":", ";", "<", "=", ">", "?",
       "@", "A", "B", "C", "D", "E", "F", "G",
       "H", "I", "J", "K", "L", "M", "N", "O",
       "P", "Q", "R", "S", "T", "U", "V", "W",
       "X", "Y", "Z", "[", "\\", "]", "^", "_",
       "\\x60", "a", "b", "c", "d", "e", "f", "g",
       "h", "i", "j", "k", "l", "m", "n", "o",
       "p", "q", "r", "s", "t", "u", "v", "w",
       "x", "y", "z", "{", "|", "}", "~", "\\x7f",
       "\\x80", "\\x81", "\\x82", "\\x83", "\\x84", "\\x85", "\\x86", "\\x87",
       "\\x88", "\\x89", "\\x8a", "\\x8b", "\\x8c", "\\x8d", "\\x8e", "\\x8f",
       "\\x90", "\\x91", "\\x92", "\\x93", "\\x94", "\\x95", "\\x96", "\\x97",
       "\\x98", "\\x99", "\\x9a", "\\x9b", "\\x9c", "\\x9d", "\\x9e", "\\x9f",
       "\\xa0", "\\xa1", "\\xa2", "\\xa3", "\\xa4", "\\xa5", "\\xa6", "\\xa7",
       "\\xa8", "\\xa9", "\\xaa", "\\xab", "\\xac", "\\xad", "\\xae", "\\xaf",
       "\\xb0", "\\xb1", "\\xb2", "\\xb3", "\\xb4", "\\xb5", "\\xb6", "\\xb7",
       "\\xb8", "\\xb9", "\\xba", "\\xbb", "\\xbc", "\\xbd", "\\xbe", "\\xbf",
       "\\xc0", "\\xc1", "\\xc2", "\\xc3", "\\xc4", "\\xc5", "\\xc6", "\\xc7",
       "\\xc8", "\\xc9", "\\xca", "\\xcb", "\\xcc", "\\xcd", "\\xce", "\\xcf",
       "\\xd0", "\\xd1", "\\xd2", "\\xd3", "\\xd4", "\\xd5", "\\xd6", "\\xd7",
       "\\xd8", "\\xd9", "\\xda", "\\xdb", "\\xdc", "\\xdd", "\\xde", "\\xdf",
       "\\xe0", "\\xe1", "\\xe2", "\\xe3", "\\xe4", "\\xe5", "\\xe6", "\\xe7",
       "\\xe8", "\\xe9", "\\xea", "\\xeb", "\\xec", "\\xed", "\\xee", "\\xef",
       "\\xf0", "\\xf1", "\\xf2", "\\xf3", "\\xf4", "\\xf5", "\\xf6", "\\xf7",
       "\\xf8", "\\xf9", "\\xfa", "\\xfb", "\\xfc", "\\xfd", "\\xfe", "\\xff"
    >>

\* chr(n) and ord(c) for the code points 0..255
chr(n) == Characters[n + 1]

ord(c) == CHOOSE n \in 0..255 : Characters[n + 1] = c

\* The characters str.lstrip() and str.strip() remove (code points 0..255).
Whitespace ==
    {"\t", "\n", "\\x0b", "\f", "\r", "\\x1c", "\\x1d", "\\x1e", "\\x1f", " ", "\\x85", "\\xa0"}
\* The line boundaries of str.splitlines() (code points 0..255).
LineBreaks ==
    {"\n", "\\x0b", "\f", "\r", "\\x1c", "\\x1d", "\\x1e", "\\x85"}

(***************************************************************************)
(* String helpers.                                                         *)
(***************************************************************************)
\* s[i:].startswith(sub), i counted from 1.
StartsWithAt(s, sub, i) ==
    /\ i >= 1
    /\ i + Len(sub) - 1 <= Len(s)
    /\ \A k \in 1..Len(sub) : s[i + k - 1] = sub[k]

\* s.startswith(sub)
StartsWith(s, sub) == StartsWithAt(s, sub, 1)

\* s.endswith(sub)
EndsWith(s, sub) == StartsWithAt(s, sub, Len(s) - Len(sub) + 1)

\* sub in s
Contains(s, sub) == \E i \in 1..(Len(s) + 1) : StartsWithAt(s, sub, i)

\* s.lstrip()
RECURSIVE lstrip(_)
lstrip(s) ==
    IF s # <<>> /\ Head(s) \in Whitespace THEN lstrip(Tail(s)) ELSE s

\* s.rstrip()
RECURSIVE rstrip(_)
rstrip(s) ==
    IF s # <<>> /\ s[Len(s)] \in Whitespace
    THEN rstrip(SubSeq(s, 1, Len(s) - 1))
    ELSE s

\* s.strip()
strip(s) == rstrip(lstrip(s))

\* s.splitlines(): the lines of s without their line breaks; "\r\n" is one
\* break, and a final break opens no further line.
RECURSIVE SplitFrom(_, _, _)
SplitFrom(s, i, cur) ==
    IF i > Len(s)
    THEN IF cur = <<>> THEN <<>> ELSE <<cur>>
    ELSE IF s[i] \in LineBreaks
         THEN LET j == IF s[i] = "\r" /\ i < Len(s) /\ s[i + 1] = "\n"
                       THEN i + 2 ELSE i + 1
              IN <<cur>> \o SplitFrom(s, j, <<>>)
         ELSE SplitFrom(s, i + 1, Append(cur, s[i]))

splitlines(s) == SplitFrom(s, 1, <<>>)

\* sep.join(lines)
RECURSIVE join(_, _)
join(sep, lines) ==
    IF lines = <<>> THEN <<>>
    ELSE IF Len(lines) = 1 THEN lines[1]
    ELSE lines[1] \o sep \o join(sep, Tail(lines))

(***************************************************************************)
(* prefix_infra_includes (lines 210-243).                                  *)
(***************************************************************************)
\* The look-behind (?<!viridien/) at position i of line: TRUE when the
\* characters just before i are "viridien/".
PrecededByViridien(line, i) ==
    /\ i > Len(VIRIDIEN)
    /\ SubSeq(line, i - Len(VIRIDIEN), i - 1) = VIRIDIEN

\* Whether the pattern (?<!viridien/)infra/ matches at position i of line.
ReSubMatch(line, i) ==
    StartsWithAt(line, INFRA, i) /\ ~PrecededByViridien(line, i)

\* What re.sub raises for a replacement template it rejects: re.error, or
\* IndexError for a group name the pattern does not have. Either stands in
\* the place of the string the call would have returned.
RE_ERROR == <<"re.error">>

INDEX_ERROR == <<"IndexError">>

Raised(value) == value \in {RE_ERROR, INDEX_ERROR}

DIGITS == {"0", "1", "2", "3", "4", "5", "6", "7", "8", "9"}

OCTDIGITS == {"0", "1", "2", "3", "4", "5", "6", "7"}

ASCIILETTERS == {chr(n) : n \in (65..90) \cup (97..122)}

\* The value of a digit.
digit(c) == ord(c) - 48

\* The escapes of a replacement template that stand for one character:
\* \a \b \f \n \r \t \v and \\.
ESCAPES ==
    [c \in {"a", "b", "f", "n", "r", "t", "v", "\\"} |->
        CASE c = "a" -> chr(7) [] c = "b" -> chr(8) [] c = "f" -> chr(12)
          [] c = "n" -> chr(10) [] c = "r" -> chr(13) [] c = "t" -> chr(9)
          [] c = "v" -> chr(11) [] c = "\\" -> "\\"]

\* The characters a Python identifier may start with (code points 0..255):
\* "_", the ASCII letters and the letters of 128..255.
ID_START ==
    ASCIILETTERS \cup {"_"} \cup
    {chr(n) : n \in {170, 181, 186} \cup (192..214) \cup (216..246) \cup (248..255)}

\* The characters a Python identifier may go on with: those, the digits and
\* the middle dot.
ID_CONTINUE == ID_START \cup DIGITS \cup {chr(183)}

\* name.isidentifier()
isidentifier(name) ==
    /\ name # <<>>
    /\ name[1] \in ID_START
    /\ \A k \in 1..Len(name) : name[k] \in ID_CONTINUE

\* The blanks int() skips around a number (code points 0..255): those of
\* str.strip() without \x1c..\x1f.
INT_SPACE == Whitespace \ {chr(n) : n \in 28..31}

\* s without the blanks int() skips at its two ends.
RECURSIVE int_strip(_)
int_strip(s) ==
    IF s # <<>> /\ Head(s) \in INT_SPACE THEN int_strip(Tail(s))
    ELSE IF s # <<>> /\ s[Len(s)] \in INT_SPACE THEN int_strip(SubSeq(s, 1, Len(s) - 1))
    ELSE s

\* Whether int(name) is 0: blanks around, a sign, then zeros, which single
\* underscores may separate (anything int() rejects is not 0).
int_is_zero(name) ==
    LET stripped == int_strip(name)
        digits == IF stripped # <<>> /\ Head(stripped) \in {"+", "-"}
                  THEN Tail(stripped) ELSE stripped
    IN /\ digits # <<>>
       /\ digits[1] = "0" /\ digits[Len(digits)] = "0"
       /\ \A k \in 1..Len(digits) : digits[k] \in {"0", "_"}
       /\ \A k \in 1..(Len(digits) - 1) : ~(digits[k] = "_" /\ digits[k + 1] = "_")

\* The position of the first ">" of s, 0 when there is none.
first_gt(s) ==
    IF \E k \in 1..Len(s) : s[k] = ">"
    THEN CHOOSE k \in 1..Len(s) : s[k] = ">" /\ \A j \in 1..(k - 1) : s[j] # ">"
    ELSE 0

\* The replacement of re.sub (line 217) for one match: the template is read
\* left to right; a backslash starts an escape, which stands for a
\* character, for the match itself (\g<0>), or is rejected. The pattern has
\* no group, so every reference to a group other than 0 is rejected, and the
\* match is always "infra/".
RECURSIVE expand_template(_)
expand_template(template) ==
    IF template = <<>> THEN <<>>
    ELSE IF Head(template) # "\\"
    THEN LET rest == expand_template(Tail(template))
         IN IF Raised(rest) THEN rest ELSE <<Head(template)>> \o rest
    ELSE IF Len(template) = 1 THEN RE_ERROR
    ELSE LET c == template[2]
             after == SubSeq(template, 3, Len(template))
             Then(chars, n) ==
                 LET rest == expand_template(SubSeq(after, n + 1, Len(after)))
                 IN IF Raised(rest) THEN rest ELSE chars \o rest
             oct(k) == Len(after) >= k /\ after[k] \in OCTDIGITS
         IN CASE c = "g" ->
                   IF after = <<>> \/ after[1] # "<" THEN RE_ERROR
                   ELSE LET close == first_gt(Tail(after))
                            name == SubSeq(after, 2, close)
                        IN IF close = 0 \/ name = <<>> THEN RE_ERROR
                           ELSE IF isidentifier(name) THEN INDEX_ERROR
                           ELSE IF int_is_zero(name) THEN Then(INFRA, close + 1)
                           ELSE RE_ERROR
              [] c = "0" ->
                   IF oct(1)
                   THEN IF oct(2)
                        THEN Then(<<chr(digit(after[1]) * 8 + digit(after[2]))>>, 2)
                        ELSE Then(<<chr(digit(after[1]))>>, 1)
                   ELSE Then(<<chr(0)>>, 0)
              [] c \in DIGITS \ {"0"} ->
                   IF c \in OCTDIGITS /\ oct(1) /\ oct(2)
                   THEN LET value == digit(c) * 64 + digit(after[1]) * 8 + digit(after[2])
                        IN IF value > 255 THEN RE_ERROR ELSE Then(<<chr(value)>>, 2)
                   ELSE RE_ERROR
              [] c \in DOMAIN ESCAPES -> Then(<<ESCAPES[c]>>, 0)
              [] c \in ASCIILETTERS -> RE_ERROR
              [] OTHER -> Then(<<"\\", c>>, 0)

\* The matches of (?<!viridien/)infra/ are found left to right in the
\* original line and do not overlap; each is replaced by repl.
RECURSIVE ReSubWith(_, _, _)
ReSubWith(line, i, repl) ==
    IF i > Len(line) THEN <<>>
    ELSE IF ReSubMatch(line, i)
         THEN repl \o ReSubWith(line, i + Len(INFRA), repl)
         ELSE <<line[i]>> \o ReSubWith(line, i + 1, repl)

\* re.sub(r"(?<!viridien/)infra/", f"{prefix}infra/", line) from position i
\* of line on: the template is compiled before any match is looked for, so a
\* template that is rejected raises whether or not the line has a match.
ReSubFrom(line, i, prefix) ==
    LET repl == expand_template(prefix \o INFRA)
    IN IF Raised(repl) THEN repl ELSE ReSubWith(line, i, repl)

\* replace_infra (lines 214-217)
replace_infra(line, prefix) ==
    IF ~Contains(line, INFRA) THEN line ELSE ReSubFrom(line, 1, prefix)

\* The exit test of line 234: a non-blank line indented no more than the
\* include: line.
LeavesBlock(stripped, indent, include_indent) ==
    stripped # <<>> /\ indent <= include_indent

\* The loop of lines 224-238 from line k on, with the loop's state
\* (in_include, include_indent); the value is the list out (a line on which
\* replace_infra raises holds what it raised).
RECURSIVE RewriteLines(_, _, _, _, _)
RewriteLines(lines, k, in_include, include_indent, prefix) ==
    IF k > Len(lines) THEN <<>>
    ELSE LET line == lines[k]
             stripped == lstrip(line)
             indent == Len(line) - Len(stripped)
         IN IF StartsWith(stripped, INCLUDE_KEY)
            THEN <<replace_infra(line, prefix)>>
                     \o RewriteLines(lines, k + 1, TRUE, indent, prefix)
            ELSE IF in_include
                 THEN IF LeavesBlock(stripped, indent, include_indent)
                      THEN <<line>>
                               \o RewriteLines(lines, k + 1, FALSE, include_indent, prefix)
                      ELSE <<replace_infra(line, prefix)>>
                               \o RewriteLines(lines, k + 1, TRUE, include_indent, prefix)
                 ELSE <<line>>
                          \o RewriteLines(lines, k + 1, FALSE, include_indent, prefix)

\* prefix_infra_includes(ci_text, prefix) (lines 210-243). A call of
\* replace_infra that raises ends the loop: what it raised stands in out at
\* the line's place, and the first such entry is what the function raises.
prefix_infra_includes(ci_text, prefix) ==
    IF ~Contains(ci_text, INCLUDE_WORD) \/ ~Contains(ci_text, INFRA)
    THEN ci_text
    ELSE LET out == RewriteLines(splitlines(ci_text), 1, FALSE, 0, prefix)
             result == join(<<"\n">>, out)
         IN IF \E k \in 1..Len(out) : Raised(out[k])
            THEN out[CHOOSE k \in 1..Len(out) :
                         Raised(out[k]) /\ \A j \in 1..(k - 1) : ~Raised(out[j])]
            ELSE IF EndsWith(ci_text, <<"\n">>) THEN result \o <<"\n">> ELSE result

(***************************************************************************)
(* main: the include prefix (lines 438-442).                               *)
(***************************************************************************)
\* os.getenv(INCLUDE_PREFIX_ENV, "").strip(), a "/" appended when missing,
\* "viridien/" when empty.
include_prefix_of(raw) ==
    LET stripped == strip(raw)
        slashed == IF stripped # <<>> /\ ~EndsWith(stripped, <<"/">>)
                   THEN stripped \o <<"/">> ELSE stripped
    IN IF slashed = <<>> THEN VIRIDIEN ELSE slashed

(***************************************************************************)
(* The batch: configuration and input parsing of main (lines 421-457) and  *)
(* the path arithmetic of migrate_repo (lines 357-376).                    *)
(***************************************************************************)
\* s.strip("/")
RECURSIVE strip_slashes(_)
strip_slashes(s) ==
    IF s # <<>> /\ Head(s) = "/" THEN strip_slashes(Tail(s))
    ELSE IF s # <<>> /\ s[Len(s)] = "/" THEN strip_slashes(SubSeq(s, 1, Len(s) - 1))
    ELSE s

\* dest_root_group of main (line 434): strip().strip("/")
dest_root_of(raw) == strip_slashes(strip(raw))

\* repos of main (lines 448-454): the stripped lines of the input file that
\* are neither empty nor comments, in the file's order.
RECURSIVE repos_of(_)
repos_of(lines) ==
    IF lines = <<>> THEN <<>>
    ELSE LET line == strip(Head(lines))
         IN IF line = <<>> \/ StartsWith(line, <<"#">>)
            THEN repos_of(Tail(lines))
            ELSE <<line>> \o repos_of(Tail(lines))

DOT_GIT == <<".", "g", "i", "t">>

\* repo_path of migrate_repo (line 357)
repo_path_of(repo_path_with_git) ==
    IF EndsWith(repo_path_with_git, DOT_GIT)
    THEN SubSeq(repo_path_with_git, 1, Len(repo_path_with_git) - Len(DOT_GIT))
    ELSE repo_path_with_git

\* s.split("/"): the pieces between the slashes, empty ones included.
RECURSIVE SplitSlashFrom(_, _, _)
SplitSlashFrom(s, i, cur) ==
    IF i > Len(s) THEN <<cur>>
    ELSE IF s[i] = "/" THEN <<cur>> \o SplitSlashFrom(s, i + 1, <<>>)
    ELSE SplitSlashFrom(s, i + 1, Append(cur, s[i]))

split_slash(s) == SplitSlashFrom(s, 1, <<>>)

\* [p for p in xs if p]
RECURSIVE non_empty(_)
non_empty(xs) ==
    IF xs = <<>> THEN <<>>
    ELSE IF Head(xs) = <<>> THEN non_empty(Tail(xs))
    ELSE <<Head(xs)>> \o non_empty(Tail(xs))

\* parts of migrate_repo (line 358)
parts_of(repo_path) == non_empty(split_slash(repo_path))

\* dest_parts (line 362), group_parts (line 364), project_name (line 363)
dest_parts_of(dest_root_group, parts) == <<dest_root_group>> \o parts

group_parts_of(dest_parts) == SubSeq(dest_parts, 1, Len(dest_parts) - 1)

\* current_path after the first k segments (line 369) and dest_full_path
\* (line 376): the segments joined by "/".
path_of(segments, k) == join(<<"/">>, SubSeq(segments, 1, k))

\* The characters urllib.parse.quote never encodes: the ASCII letters, the
\* digits and "_.-~".
ALWAYS_SAFE == ASCIILETTERS \cup DIGITS \cup {"_", ".", "-", "~"}

HEX_DIGITS ==
    <<"0", "1", "2", "3", "4", "5", "6", "7", "8", "9", "A", "B", "C", "D", "E", "F">>

\* "%XX" for one byte.
percent(byte) == <<"%", HEX_DIGITS[(byte \div 16) + 1], HEX_DIGITS[(byte % 16) + 1]>>

\* c.encode("utf-8") for a character with a code point in 0..255
utf8(c) ==
    IF ord(c) < 128 THEN <<ord(c)>>
    ELSE <<192 + (ord(c) \div 64), 128 + (ord(c) % 64)>>

\* urllib.parse.quote(s, safe="") (lines 112, 134, 191, 201): every
\* character outside ALWAYS_SAFE becomes the %XX of each of its bytes.
RECURSIVE quote(_)
quote(s) ==
    IF s = <<>> THEN <<>>
    ELSE LET c == Head(s)
             bytes == utf8(c)
         IN (IF c \in ALWAYS_SAFE THEN <<c>>
             ELSE IF Len(bytes) = 1 THEN percent(bytes[1])
             ELSE percent(bytes[1]) \o percent(bytes[2])) \o quote(Tail(s))

\* The value of a hexadecimal digit, -1 for any other character.
hex_value(c) ==
    IF c \in DIGITS THEN digit(c)
    ELSE IF c \in {"A", "B", "C", "D", "E", "F"} THEN ord(c) - 55
    ELSE IF c \in {"a", "b", "c", "d", "e", "f"} THEN ord(c) - 87
    ELSE -1

\* The byte that "%XX" at position i of s stands for, -1 when there is no
\* such escape at i.
byte_at(s, i) ==
    IF i + 2 <= Len(s) /\ s[i] = "%" /\ hex_value(s[i + 1]) >= 0 /\ hex_value(s[i + 2]) >= 0
    THEN hex_value(s[i + 1]) * 16 + hex_value(s[i + 2])
    ELSE -1

\* The server's decoding of a path parameter: every %XX stands for a byte,
\* and the bytes are read as UTF-8 (code points 0..255).
RECURSIVE unquote(_)
unquote(s) ==
    IF s = <<>> THEN <<>>
    ELSE LET b1 == byte_at(s, 1)
             b2 == byte_at(s, 4)
         IN IF b1 >= 0 /\ b1 < 128
            THEN <<chr(b1)>> \o unquote(SubSeq(s, 4, Len(s)))
            ELSE IF b1 \in 194..195 /\ b2 \in 128..191
            THEN <<chr((b1 - 192) * 64 + (b2 - 128))>> \o unquote(SubSeq(s, 7, Len(s)))
            ELSE <<Head(s)>> \o unquote(Tail(s))

(***************************************************************************)
(* Inputs of the rewriter: texts of up to MaxLines lines, each an          *)
(* indentation followed by a body, with or without a final line break.     *)
(***************************************************************************)
MaxLines == 3

\* Values of GITLAB_INCLUDE_PREFIX: unset or empty, "t", " t/ ".
RawPrefixes == {<<>>, <<"t">>, <<" ", "t", "/", " ">>}

\* Values of GITLAB_INCLUDE_PREFIX with a backslash: "g\n", which re.sub
\* reads as "g" and a line break, and "\1", which it rejects.
RawBackslashPrefixes == {<<"g", "\\", "n">>, <<"\\", "1">>}

IncludePrefixes ==
    {include_prefix_of(raw) : raw \in RawPrefixes \cup RawBackslashPrefixes}

\* The values of GITLAB_INCLUDE_PREFIX the batch is run with: those without
\* a backslash and the one re.sub rejects.
BatchRawPrefixes == RawPrefixes \cup {<<"\\", "1">>}

LineIndents == {<<>>, <<" ">>}

LineBodies ==
    { <<>>,
      INCLUDE_KEY,
      INFRA,
      INCLUDE_KEY \o INFRA,
      VIRIDIEN \o INFRA }

TextLines == {ind \o body : ind \in LineIndents, body \in LineBodies}

TextEndings == {<<>>, <<"\n">>}

Texts ==
    UNION { { join(<<"\n">>, [k \in 1..n |-> f[k]]) \o e :
                f \in [1..n -> TextLines], e \in TextEndings } : n \in 1..MaxLines }

\* How many times the rewriter is applied in a row.
MaxPasses == 2

VARIABLES
    rw_text,     \* the text given to the first pass
    rw_prefix,   \* the prefix of every pass
    rw_out       \* the results of the passes so far, oldest first

rvars == <<rw_text, rw_prefix, rw_out>>

VARIABLES
    http_call,   \* the function of the Remote Client that is called
    http_status, \* the status_code of the response it receives
    http_body,   \* the content of the response it receives
    http_result  \* what the call gives its caller; "pending" before it ends

hvars == <<http_call, http_status, http_body, http_result>>

VARIABLES
    cfg,         \* repos, dest_root_group, include_prefix; the source project's
                 \* file and what its import yields
    ee_groups,   \* the destination's groups: records path, id, parent_id
    ee_proj,     \* the destination project: exists, id, path, file, issues
    next_id,     \* the next id the destination assigns
    ce_issues,   \* the source project's issues, with their notes
    run,         \* the number of the batch run
    pc,          \* the program's position
    idx,         \* main's position in repos (line 459)
    part_pos,           \* migrate_repo's position in group_parts (line 368)
    parent_id,   \* parent_id of migrate_repo (line 366); 0 is None
    ee_id,       \* ee_project_id (line 406 and on); 0 is None
    polls,       \* what the polls of the polling loop in progress, or just
                 \* ended, have seen, oldest first
    clock,       \* the time since the polling loop in progress set its
                 \* deadline (lines 139, 165), in sleeps of the loop
    page,        \* page of api_get_all (lines 61, 73)
    items,       \* items of api_get_all (lines 60, 72)
    tmpdir,      \* the temporary directory of line 392: "none" when there is
                 \* none, else its archive's state, "partial" or "full"
    updated,     \* updated of update_ci_includes (line 259)
    ce_list,     \* ce_issues as reconcile_issues fetched them (line 304)
    ee_list,     \* ee_issues as reconcile_issues fetched them (line 310)
    issue_pos,           \* reconcile_issues' position in ce_list (line 324)
    url,         \* ee_url_link (line 334)
    calls,       \* this run's remote calls and events, oldest first
    clean,       \* no server error, failed job or interrupt in this run so far
    prev         \* the instances as the previous run left them

remote == <<ee_groups, ee_proj, next_id, ce_issues>>
locals == <<part_pos, parent_id, ee_id, polls, clock, page, items, tmpdir, updated, ce_list, ee_list,
            issue_pos, url>>
mvars == <<cfg, remote, run, pc, idx, locals, calls, clean, prev>>
vars == <<rvars, hvars, mvars>>

\* What no step of the batch changes.
fixed == <<cfg, rvars, hvars>>

\* The first application (update_ci_includes, line 259).
RewriteFirst ==
    /\ rw_out = <<>>
    /\ rw_out' = <<prefix_infra_includes(rw_text, rw_prefix)>>
    /\ UNCHANGED <<rw_text, rw_prefix, hvars, mvars>>

\* A further application to the previous result (the next run's line 259),
\* when there is one: a pass that raised returned nothing.
RewriteAgain ==
    /\ rw_out # <<>>
    /\ Len(rw_out) < MaxPasses
    /\ ~Raised(rw_out[Len(rw_out)])
    /\ rw_out' = Append(rw_out, prefix_infra_includes(rw_out[Len(rw_out)], rw_prefix))
    /\ UNCHANGED <<rw_text, rw_prefix, hvars, mvars>>

(***************************************************************************)
(* Properties of the rewriter, checked under SpecRewrite.                  *)
(***************************************************************************)
\* The text pass p was applied to.
PassInput(p) == IF p = 1 THEN rw_text ELSE rw_out[p - 1]

LineIndent(line) == Len(line) - Len(lstrip(line))

IsIncludeLine(line) == StartsWith(lstrip(line), INCLUDE_KEY)

IsBlankLine(line) == lstrip(line) = <<>>

\* Line i lies in the block that the include: line j starts: no line after j
\* and up to i is non-blank and indented no more than line j.
InBlockOf(lines, j, i) ==
    /\ j <= i
    /\ IsIncludeLine(lines[j])
    /\ \A k \in (j + 1)..i :
           IsBlankLine(lines[k]) \/ LineIndent(lines[k]) > LineIndent(lines[j])

OutsideEveryBlock(lines, i) == \A j \in 1..i : ~InBlockOf(lines, j, i)

\* The positions of "infra/" in a line, and those not preceded by "viridien/".
InfraAt(line) == {q \in 1..Len(line) : StartsWithAt(line, INFRA, q)}

Unguarded(line) ==
    {q \in InfraAt(line) :
        ~(q > Len(VIRIDIEN) /\ StartsWithAt(line, VIRIDIEN, q - Len(VIRIDIEN)))}

\* new is old with "viridien/" inserted once before each unguarded "infra/"
\* and nothing else changed.
GuardedInsertion(old, new) ==
    LET shift(q) == Len(VIRIDIEN) * Cardinality({u \in Unguarded(old) : u <= q})
    IN /\ Len(new) = Len(old) + Len(VIRIDIEN) * Cardinality(Unguarded(old))
       /\ \A q \in 1..Len(old) : new[q + shift(q)] = old[q]
       /\ \A u \in Unguarded(old) :
              StartsWithAt(new, VIRIDIEN, u + shift(u) - Len(VIRIDIEN))

\* C1 (as claimed): for every text and every prefix, a second application of
\* prefix_infra_includes returns the result of the first.
C1_Idempotent ==
    Len(rw_out) >= 2 => rw_out[2] = rw_out[1]

\* C3 (as claimed): every line outside every include block is in the output
\* unchanged and at the same position, also when it contains "infra/" (a
\* pass that raises has no output).
C3_OutsideUnchanged ==
    \A p \in 1..Len(rw_out) :
        LET old == splitlines(PassInput(p))
            new == splitlines(rw_out[p])
        IN ~Raised(rw_out[p]) =>
               \A i \in 1..Len(old) :
                   OutsideEveryBlock(old, i) => (i <= Len(new) /\ new[i] = old[i])

\* C4 (as claimed): with the default prefix, in every line inside an include
\* block each "infra/" already preceded by "viridien/" is left as it is and
\* every other "infra/" gets the prefix inserted exactly once before it.
C4_NamespaceGuard ==
    rw_prefix = VIRIDIEN =>
        \A p \in 1..Len(rw_out) :
            LET old == splitlines(PassInput(p))
                new == splitlines(rw_out[p])
            IN \A i \in 1..Len(old) :
                   ~OutsideEveryBlock(old, i) =>
                       /\ i <= Len(new)
                       /\ GuardedInsertion(old[i], new[i])

(***************************************************************************)
(* The Remote Client (lines 49-108).                                       *)
(***************************************************************************)
\* What a response's body may be: a JSON document, nothing at all, or text
\* that is no JSON document.
HttpBodies == {"json", "empty", "text"}

\* response.json() (lines 53, 82, 91, 99, 107): the document of a body that
\* holds one; any other body raises a JSONDecodeError.
response_json(body) == IF body = "json" THEN "json" ELSE "decode_error"

\* response.raise_for_status() (lines 56, 84, 92, 100, 108) raises an
\* HTTPError for 4xx and 5xx and returns for any other status, after which
\* the function falls off its end and returns None.
raise_for_status(status) ==
    IF status >= 400 /\ status <= 599 THEN "raise" ELSE "none"

\* api_get (lines 49-56): 200 gives the body's document, 404 gives None.
api_get(status, body) ==
    IF status = 200 THEN response_json(body)
    ELSE IF status = 404 THEN "none"
    ELSE raise_for_status(status)

\* api_post (lines 77-84): a success status gives the body's document when
\* response.content is not empty and None when it is.
api_post(status, body) ==
    IF status \in {200, 201, 202}
    THEN IF body # "empty" THEN response_json(body) ELSE "none"
    ELSE raise_for_status(status)

\* api_post_form (lines 87-92): a success status gives the body's document,
\* with no test of response.content.
api_post_form(status, body) ==
    IF status \in {200, 201, 202} THEN response_json(body)
    ELSE raise_for_status(status)

\* api_put (lines 95-100)
api_put(status, body) ==
    IF status \in {200, 201} THEN response_json(body)
    ELSE raise_for_status(status)

\* api_put_form (lines 103-108)
api_put_form(status, body) ==
    IF status \in {200, 201} THEN response_json(body)
    ELSE raise_for_status(status)

\* The status codes a response may carry (requests follows a redirect that
\* names a location; a 3xx that names none is handed to the caller).
HttpStatuses ==
    {200, 201, 202, 203, 204, 206, 300, 301, 302, 303, 304, 307, 308,
     400, 401, 403, 404, 405, 409, 410, 422, 429, 500, 501, 502, 503, 504}

\* The calls of the Remote Client.
HttpCalls == {"api_get", "api_post", "api_post_form", "api_put", "api_put_form"}

\* api_get (lines 49-56) ends.
ApiGet ==
    /\ http_call = "api_get"
    /\ http_result = "pending"
    /\ http_result' = api_get(http_status, http_body)
    /\ UNCHANGED <<http_call, http_status, http_body, rvars, mvars>>

\* api_post (lines 77-84) ends.
ApiPost ==
    /\ http_call = "api_post"
    /\ http_result = "pending"
    /\ http_result' = api_post(http_status, http_body)
    /\ UNCHANGED <<http_call, http_status, http_body, rvars, mvars>>

\* api_post_form (lines 87-92) ends.
ApiPostForm ==
    /\ http_call = "api_post_form"
    /\ http_result = "pending"
    /\ http_result' = api_post_form(http_status, http_body)
    /\ UNCHANGED <<http_call, http_status, http_body, rvars, mvars>>

\* api_put (lines 95-100) ends.
ApiPut ==
    /\ http_call = "api_put"
    /\ http_result = "pending"
    /\ http_result' = api_put(http_status, http_body)
    /\ UNCHANGED <<http_call, http_status, http_body, rvars, mvars>>

\* api_put_form (lines 103-108) ends.
ApiPutForm ==
    /\ http_call = "api_put_form"
    /\ http_result = "pending"
    /\ http_result' = api_put_form(http_status, http_body)
    /\ UNCHANGED <<http_call, http_status, http_body, rvars, mvars>>

\* The body of the instances' answers: GitLab answers every request of the
\* batch with a JSON document.
AnswerBody == "json"

\* The statuses a server answers a GET with: 200 or 404 by the resource's
\* existence, or a server error.
GetStatuses(exists) == {IF exists THEN 200 ELSE 404, 500}

\* The statuses ensure_group takes for "the group already exists" (line 126).
ConflictStatusesOnly409 == {409}

ConflictStatuses == {400, 409}

(***************************************************************************)
(* The issue reconciler's pure parts (lines 180-187, 268-275).             *)
(***************************************************************************)
\* "Migrated to EE: " (lines 271, 290)
MIGRATED ==
    <<"M", "i", "g", "r", "a", "t", "e", "d", " ", "t", "o", " ", "E", "E", ":", " ">>

\* Mutant of ce_has_migration_note: never finds the note.
ce_has_migration_note_never(ce_notes, ee_issue_url) == FALSE

\* ce_has_migration_note (lines 268-275): some note's stripped body equals
\* "Migrated to EE: " followed by the address.
ce_has_migration_note(ce_notes, ee_issue_url) ==
    IF ee_issue_url = <<>> THEN FALSE
    ELSE \E n \in 1..Len(ce_notes) :
             strip(ce_notes[n]) = MIGRATED \o ee_issue_url

\* build_issue_maps (lines 180-187), by_iid: of the issues with a truthy iid,
\* the last one with the given iid; 0 when there is none.
by_iid(ee_issues, iid) ==
    LET hits == {n \in 1..Len(ee_issues) :
                    ee_issues[n].iid # 0 /\ ee_issues[n].iid = iid}
    IN IF hits = {} THEN 0 ELSE CHOOSE n \in hits : \A m \in hits : m <= n

\* Mutant of by_title_created: the second lookup structure is never filled.
by_title_created_empty(ee_issues, title, created_at) == 0

\* build_issue_maps, by_title_created: of the issues with a truthy title and
\* creation time, the last one with the given pair; 0 when there is none.
by_title_created(ee_issues, title, created_at) ==
    LET hits == {n \in 1..Len(ee_issues) :
                    /\ ee_issues[n].title # "" /\ ee_issues[n].created_at # ""
                    /\ ee_issues[n].title = title
                    /\ ee_issues[n].created_at = created_at}
    IN IF hits = {} THEN 0 ELSE CHOOSE n \in hits : \A m \in hits : m <= n

\* The counterpart reconcile_issues takes for a source issue (lines 325-328):
\* its index in ee_issues, 0 when there is none.
counterpart(ee_issues, ce_issue) ==
    IF by_iid(ee_issues, ce_issue.iid) # 0
    THEN by_iid(ee_issues, ce_issue.iid)
    ELSE by_title_created(ee_issues, ce_issue.title, ce_issue.created_at)

(***************************************************************************)
(* Scenarios: the configuration, the input file and the two instances.     *)
(***************************************************************************)
\* How often the batch is run in a row.
MaxRuns == 2

\* How many groups another actor creates during one run.
MaxExternal == 1

\* The deadline of a polling loop, in sleeps of the loop (MAX_POLL_MINUTES *
\* 60 seconds over EXPORT_POLL_SECONDS or IMPORT_POLL_SECONDS, scaled down).
MaxPolls == 2

\* The one project of the source instance, "a/b/p".
CE_PROJECT_PATH == <<"a", "/", "b", "/", "p">>

\* Values of GITLAB_DEST_ROOT_GROUP.
RawRoots == { <<"r">>, <<" ", "/", "r", "/", " ">> }

\* Input files: their lines. A comment, a path with no segment, a path the
\* source has no project at, an empty line and the source project's path
\* with blanks around it and ".git" at its end.
InputFiles ==
    { << <<"#", "x">>,
         <<"/">>,
         <<"a", "%", "2", "F", "b", "%", "2", "F", "p">>,
         <<>>,
         <<" ", "a", "/", "b", "/", "p", ".", "g", "i", "t", " ">> >> }

NoFile == [present |-> FALSE, text |-> <<>>]

\* .gitlab-ci.yml of the source project: none, or an include block with one
\* "infra/" inside it and one after it.
CiFiles ==
    { NoFile,
      [present |-> TRUE,
       text |-> INCLUDE_KEY \o <<"\n", " ">> \o INFRA \o <<"\n">> \o INFRA \o <<"\n">>] }

U1 == <<"u", "1">>
U2 == <<"u", "2">>
U9 == <<"u", "9">>

CeIssue(iid, title, created_at, state, notes) ==
    [iid |-> iid, title |-> title, created_at |-> created_at, state |-> state,
     notes |-> notes]

EeIssue(iid, title, created_at, web_url) ==
    [iid |-> iid, title |-> title, created_at |-> created_at, web_url |-> web_url]

\* Issues whose internal ids agree; the second source issue is already
\* closed.
AgreeingIssues ==
    [ce |-> << CeIssue(1, "x", "t0", "opened", <<>>),
               CeIssue(2, "y", "t1", "closed", <<>>) >>,
     ee |-> << EeIssue(1, "x", "t0", U1), EeIssue(2, "y", "t1", U2) >>]

\* The issues of the source project and of its destination counterpart.
IssueScenarios ==
    { AgreeingIssues,
      \* a note whose body is the canonical text within white space; the
      \* second source issue has no counterpart
      [ce |-> << CeIssue(1, "x", "t0", "opened", << <<" ">> \o MIGRATED \o U1 \o <<"\n">> >>),
                 CeIssue(2, "y", "t1", "opened", <<>>) >>,
        ee |-> << EeIssue(1, "x", "t0", U1) >>],
      \* the internal ids differ; the second counterpart has no address
      [ce |-> << CeIssue(1, "x", "t0", "opened", << <<"o", "k">> >>),
                 CeIssue(2, "y", "t1", "opened", <<>>) >>,
        ee |-> << EeIssue(9, "x", "t0", U9), EeIssue(2, "z", "t1", <<>>) >>],
      \* one destination issue is the counterpart by internal id of the first
      \* source issue and has the title and time of the second
      [ce |-> << CeIssue(1, "x", "t0", "opened", <<>>),
                 CeIssue(2, "y", "t1", "opened", <<>>) >>,
        ee |-> << EeIssue(1, "y", "t1", U1) >>] }

NoProject == [exists |-> FALSE, id |-> 0, path |-> <<>>, file |-> NoFile, issues |-> <<>>]

\* The destination after an earlier, manual import of the project.
Group(path, id, parent) == [path |-> path, id |-> id, parent_id |-> parent]

(***************************************************************************)
(* What the current record means (migrate_repo, lines 357-376).            *)
(***************************************************************************)
RepoPath == repo_path_of(cfg.repos[idx])
Parts == parts_of(RepoPath)
DestParts == dest_parts_of(cfg.dest_root_group, Parts)
GroupParts == group_parts_of(DestParts)
ProjectName == DestParts[Len(DestParts)]
CurrentPath == path_of(GroupParts, part_pos)
DestFullPath == path_of(DestParts, Len(DestParts))

\* The destination's lookup of a group by its encoded path.
GroupsAt(encoded) == {g \in ee_groups : g.path = unquote(encoded)}

\* An entry of calls.
Entry(op, path, a, b) == [op |-> op, repo |-> idx, path |-> path, a |-> a, b |-> b]

Logged(op, path, a, b) == calls' = Append(calls, Entry(op, path, a, b))

\* The end of the with block of line 392, by return or by exception:
\* TemporaryDirectory removes the directory and what is in it.
with_exit(dir) == "none"

ResetLocals ==
    /\ part_pos' = 0 /\ parent_id' = 0 /\ ee_id' = 0 /\ polls' = <<>> /\ clock' = 0
    /\ page' = 1 /\ items' = <<>>
    /\ tmpdir' = with_exit(tmpdir)
    /\ updated' = <<>> /\ ce_list' = <<>> /\ ee_list' = <<>> /\ issue_pos' = 0 /\ url' = <<>>

(***************************************************************************)
(* main's loop (lines 459-463).                                            *)
(***************************************************************************)
\* Mutant of AfterFailure: the first failure ends the batch.
AfterFailureAbort == Len(cfg.repos) + 1

\* Where main's loop goes on after migrate_repo raised (lines 462-463): the
\* exception is caught and the next repo is taken.
AfterFailure == idx + 1

\* migrate_repo raises; main catches it (lines 462-463). faulty: the cause is a
\* server error or a failed or late job, not the data of the two instances.
Fail(what, faulty) ==
    /\ pc' = "loop"
    /\ idx' = AfterFailure
    /\ Logged("failed", what, 0, 0)
    /\ clean' = (clean /\ ~faulty)
    /\ ResetLocals
    /\ UNCHANGED <<fixed, remote, run, prev>>

\* A polling loop raises (lines 149, 151, 175, 177, or api_get at lines 141,
\* 167); main catches it. seen: what the loop's polls have seen.
FailPolling(what, seen) ==
    /\ pc' = "loop"
    /\ idx' = AfterFailure
    /\ Logged("failed", what, 0, 0)
    /\ clean' = FALSE
    /\ part_pos' = 0 /\ parent_id' = 0 /\ ee_id' = 0 /\ polls' = seen /\ clock' = 0
    /\ page' = 1 /\ items' = <<>>
    /\ tmpdir' = with_exit(tmpdir)
    /\ updated' = <<>> /\ ce_list' = <<>> /\ ee_list' = <<>> /\ issue_pos' = 0 /\ url' = <<>>
    /\ UNCHANGED <<fixed, remote, run, prev>>

\* main takes the next repo and migrate_repo starts on it (lines 459-366).
Begin ==
    /\ pc = "loop"
    /\ idx <= Len(cfg.repos)
    /\ IF Parts = <<>>
       THEN /\ calls' = calls \o << Entry("migrate_repo", cfg.repos[idx], 0, 0),
                                    Entry("returned", <<>>, 0, 0) >>
            /\ idx' = idx + 1
            /\ UNCHANGED <<pc, part_pos>>
       ELSE /\ Logged("migrate_repo", cfg.repos[idx], 0, 0)
            /\ pc' = "eg_get"
            /\ part_pos' = 1
            /\ UNCHANGED idx
    /\ polls' = <<>> /\ clock' = 0
    /\ UNCHANGED <<fixed, remote, run, clean, prev>>
    /\ UNCHANGED <<parent_id, ee_id, tmpdir, updated, ce_list, ee_list, issue_pos, url, page, items>>

\* The loop of line 459 is exhausted: main returns.
Finish ==
    /\ pc = "loop"
    /\ idx > Len(cfg.repos)
    /\ pc' = "done"
    /\ UNCHANGED <<fixed, remote, run, idx, locals, calls, clean, prev>>

\* The operator runs the batch again over the same input.
Rerun ==
    /\ pc = "done"
    /\ run < MaxRuns
    /\ run' = run + 1
    /\ pc' = "loop"
    /\ idx' = 1
    /\ calls' = <<>>
    /\ clean' = TRUE
    /\ prev' = [valid |-> clean, ee_groups |-> ee_groups, ee_proj |-> ee_proj,
                ce_issues |-> ce_issues]
    /\ UNCHANGED <<fixed, remote, locals>>

\* The process is interrupted (KeyboardInterrupt is no Exception: line 462
\* does not catch it); the with block of line 392 still removes its directory.
Interrupt ==
    /\ pc # "done"
    /\ pc' = "done"
    /\ calls' = <<Entry("interrupted", <<>>, 0, 0)>>
    /\ clean' = FALSE
    /\ idx' = 1
    /\ ResetLocals
    /\ UNCHANGED <<fixed, remote, run, prev>>

(***************************************************************************)
(* ensure_group (lines 111-130), called by the loop of lines 368-374.      *)
(***************************************************************************)
\* Mutant of NextParent: every group is created at the top level.
NextParentNone(id) == 0

\* parent_id for the next segment (line 370): the id ensure_group returned.
NextParent(id) == id

\* ensure_group returns (id, created); the loop of line 368 goes on.
GroupReturns(id, created) ==
    /\ parent_id' = NextParent(id)
    /\ IF part_pos < Len(GroupParts)
       THEN part_pos' = part_pos + 1 /\ pc' = "eg_get"
       ELSE part_pos' = part_pos /\ pc' = "ce_get"

\* The path the destination gives a group created with a name and a parent.
NewGroupPath(name, parent) ==
    IF parent = 0 THEN name
    ELSE LET pg == CHOOSE g \in ee_groups : g.id = parent
         IN pg.path \o <<"/">> \o name

\* Lines 112-115: the first lookup by full path.
EnsureGroupLookup ==
    /\ pc = "eg_get"
    /\ \E st \in GetStatuses(GroupsAt(quote(CurrentPath)) # {}) :
          CASE api_get(st, AnswerBody) = "json" ->
                   LET g == CHOOSE g \in GroupsAt(quote(CurrentPath)) : TRUE
                   IN /\ calls' = calls \o << Entry("ensure_group", CurrentPath, parent_id, 0),
                                              Entry("ensured", CurrentPath, g.id, 0) >>
                      /\ GroupReturns(g.id, FALSE)
                      /\ UNCHANGED <<fixed, remote, run, idx, clean, prev>>
                      /\ UNCHANGED <<ee_id, polls, tmpdir, updated, ce_list, ee_list, issue_pos, url, clock, page, items>>
            [] api_get(st, AnswerBody) = "none" ->
                   /\ Logged("ensure_group", CurrentPath, parent_id, 0)
                   /\ pc' = "eg_post"
                   /\ UNCHANGED <<fixed, remote, run, idx, locals, clean, prev>>
            [] OTHER ->
                   /\ calls' = calls \o << Entry("ensure_group", CurrentPath, parent_id, 0),
                                           Entry("failed", <<"g", "e", "t">>, 0, 0) >>
                   /\ pc' = "loop" /\ idx' = AfterFailure /\ clean' = FALSE
                   /\ ResetLocals
                   /\ UNCHANGED <<fixed, remote, run, prev>>

\* Lines 117-126: the create call. The destination refuses a path that is
\* taken with 400 or 409; it may also refuse or fail for its own reasons.
EnsureGroupCreate ==
    /\ pc = "eg_post"
    /\ LET name == GroupParts[part_pos]
           taken == \E g \in ee_groups : g.path = NewGroupPath(name, parent_id)
       IN \E st \in (IF taken THEN {400, 409} ELSE {201, 400, 500}) :
             IF api_post(st, AnswerBody) = "json"
             THEN /\ ee_groups' = ee_groups \cup
                         {Group(NewGroupPath(name, parent_id), next_id, parent_id)}
                  /\ next_id' = next_id + 1
                  /\ calls' = calls \o << Entry("create_group", NewGroupPath(name, parent_id),
                                                parent_id, next_id),
                                          Entry("ensured", CurrentPath, next_id, 1) >>
                  /\ GroupReturns(next_id, TRUE)
                  /\ UNCHANGED <<fixed, ee_proj, ce_issues, run, idx, clean, prev>>
                  /\ UNCHANGED <<ee_id, polls, tmpdir, updated, ce_list, ee_list, issue_pos, url, clock, page, items>>
             ELSE IF st \in ConflictStatuses
             THEN /\ Logged("conflict", CurrentPath, parent_id, st)
                  /\ pc' = "eg_reget"
                  /\ clean' = (clean /\ taken)
                  /\ UNCHANGED <<fixed, remote, run, idx, locals, prev>>
             ELSE Fail(<<"p", "o", "s", "t">>, TRUE)

\* Lines 127-130: the lookup after a conflict.
EnsureGroupRelookup ==
    /\ pc = "eg_reget"
    /\ \E st \in GetStatuses(GroupsAt(quote(CurrentPath)) # {}) :
          IF api_get(st, AnswerBody) = "json"
          THEN LET g == CHOOSE g \in GroupsAt(quote(CurrentPath)) : TRUE
               IN /\ Logged("ensured", CurrentPath, g.id, 0)
                  /\ GroupReturns(g.id, FALSE)
                  /\ UNCHANGED <<fixed, remote, run, idx, clean, prev>>
                  /\ UNCHANGED <<ee_id, polls, tmpdir, updated, ce_list, ee_list, issue_pos, url, clock, page, items>>
          ELSE Fail(<<"c", "o", "n", "f", "l", "i", "c", "t">>, TRUE)

\* Another actor creates the group ensure_group is about to create, between
\* ensure_group's lookups.
ExternalCreatesGroup ==
    /\ pc \in {"eg_post", "eg_reget"}
    /\ Cardinality({n \in 1..Len(calls) : calls[n].op = "external"}) < MaxExternal
    /\ GroupsAt(quote(CurrentPath)) = {}
    /\ ee_groups' = ee_groups \cup {Group(CurrentPath, next_id, parent_id)}
    /\ next_id' = next_id + 1
    /\ clean' = FALSE
    /\ Logged("external", CurrentPath, parent_id, next_id)
    /\ UNCHANGED <<fixed, ee_proj, ce_issues, run, pc, idx, locals, prev>>

(***************************************************************************)
(* migrate_repo after the groups (lines 376-418).                          *)
(***************************************************************************)
\* Mutant of source_missing: migrate_repo goes on without the source project.
source_missing_ignored(outcome) == FALSE

\* The test of line 379 on what get_project returned.
source_missing(outcome) == outcome # "json"

\* get_project (lines 133-135) on the source, line 378; absent raises (380).
GetSourceProject ==
    /\ pc = "ce_get"
    /\ \E st \in GetStatuses(unquote(quote(RepoPath)) = CE_PROJECT_PATH) :
          IF api_get(st, AnswerBody) = "raise" THEN Fail(<<"g", "e", "t">>, TRUE)
          ELSE IF source_missing(api_get(st, AnswerBody))
          THEN Fail(<<"n", "o", " ", "c", "e">>, FALSE)
          ELSE /\ Logged("ce_project", RepoPath, 0, 0)
               /\ pc' = "ee_get"
               /\ UNCHANGED <<fixed, remote, run, idx, locals, clean, prev>>

\* Mutant of ProjectFound: a destination project that exists is transferred
\* again.
ProjectFoundNever(outcome) == FALSE

\* The test of line 383 on what get_project returned.
ProjectFound(outcome) == outcome = "json"

\* get_project on the destination by its full path, lines 382-383.
GetDestProject ==
    /\ pc = "ee_get"
    /\ \E st \in GetStatuses(ee_proj.exists /\ ee_proj.path = unquote(quote(DestFullPath))) :
          IF api_get(st, AnswerBody) = "raise" THEN Fail(<<"g", "e", "t">>, TRUE)
          ELSE IF ProjectFound(api_get(st, AnswerBody))
          THEN /\ Logged("exists", DestFullPath, ee_proj.id, 0)
               /\ ee_id' = ee_proj.id
               /\ pc' = "ci_get"
               /\ UNCHANGED <<fixed, remote, run, idx, clean, prev>>
               /\ UNCHANGED <<part_pos, parent_id, polls, tmpdir, updated, ce_list, ee_list, issue_pos, url, clock, page, items>>
          ELSE /\ Logged("absent", DestFullPath, 0, 0)
               /\ pc' = "export_post"
               /\ UNCHANGED <<fixed, remote, run, idx, locals, clean, prev>>

\* export_project, line 341: the export trigger.
TriggerExport ==
    /\ pc = "export_post"
    /\ \E st \in {202, 500} :
          IF api_post(st, AnswerBody) = "raise" THEN Fail(<<"p", "o", "s", "t">>, TRUE)
          ELSE /\ Logged("export", RepoPath, 0, 0)
               /\ pc' = "export_wait"
               /\ polls' = <<>> /\ clock' = 0
               /\ UNCHANGED <<fixed, remote, run, idx, clean, prev>>
               /\ UNCHANGED <<part_pos, parent_id, ee_id, tmpdir, updated, ce_list, ee_list, issue_pos, url, page, items>>

\* What a poll finds: no payload (404), a job that runs, has finished or has
\* failed; "error" is a server error on the poll, which api_get raises.
PollResults == {"none", "started", "finished", "failed", "error"}

\* How long a poll's request may take, in sleeps of the loop: it is answered
\* at once, or after as long as a sleep lasts.
RequestTimes == {0, 1}

\* The clock after a poll that took a time and the sleep that follows it
\* (lines 141 and 143, 150; 167 and 169, 176). What lies past the deadline
\* is not told apart.
after_sleep(time, took) ==
    IF time + took + 1 >= MaxPolls THEN MaxPolls ELSE time + took + 1

\* The test of lines 140 and 166, time.time() < deadline, has failed: the
\* deadline lies MaxPolls sleeps after the loop's start.
DeadlinePassed == clock >= MaxPolls

\* Mutant of wait_for_export: no payload is taken for a failed export.
wait_for_export_strict(status) ==
    IF status = "error" THEN "propagate"
    ELSE IF status = "finished" THEN "return"
    ELSE IF status \in {"failed", "none"} THEN "raise"
    ELSE "sleep"

\* One poll of wait_for_export (lines 141-150).
wait_for_export(status) ==
    IF status = "error" THEN "propagate"
    ELSE IF status = "none" THEN "sleep"
    ELSE IF status = "finished" THEN "return"
    ELSE IF status = "failed" THEN "raise"
    ELSE "sleep"

\* Mutant of wait_for_import: an import that has started counts as done.
wait_for_import_hasty(status) ==
    IF status = "error" THEN "propagate"
    ELSE IF status = "none" THEN "sleep"
    ELSE IF status \in {"finished", "started"} THEN "return"
    ELSE "raise"

\* One poll of wait_for_import (lines 167-176).
wait_for_import(status) ==
    IF status = "error" THEN "propagate"
    ELSE IF status = "none" THEN "sleep"
    ELSE IF status = "finished" THEN "return"
    ELSE IF status = "failed" THEN "raise"
    ELSE "sleep"

\* wait_for_export (lines 138-151), one turn of its loop.
WaitExport ==
    /\ pc = "export_wait"
    /\ IF DeadlinePassed
       THEN FailPolling(<<"t", "i", "m", "e", "d">>, polls)
       ELSE \E status \in PollResults, took \in RequestTimes :
               CASE wait_for_export(status) = "return" ->
                        /\ Logged("export_finished", RepoPath, 0, 0)
                        /\ pc' = "download"
                        /\ polls' = Append(polls, status)
                        /\ clock' = 0
                        /\ UNCHANGED <<fixed, remote, run, idx, clean, prev>>
                        /\ UNCHANGED <<part_pos, parent_id, ee_id, tmpdir, updated, ce_list, ee_list, issue_pos, url, page, items>>
                 [] wait_for_export(status) = "sleep" ->
                        /\ polls' = Append(polls, status)
                        /\ clock' = after_sleep(clock, took)
                        /\ UNCHANGED <<fixed, remote, run, pc, idx, calls, clean, prev>>
                        /\ UNCHANGED <<part_pos, parent_id, ee_id, tmpdir, updated, ce_list, ee_list, issue_pos, url, page, items>>
                 [] wait_for_export(status) = "raise" ->
                        FailPolling(<<"e", "x", "p", "o", "r", "t">>, Append(polls, status))
                 [] OTHER -> FailPolling(<<"g", "e", "t">>, Append(polls, status))

\* Lines 392-394 and 155-158: the temporary directory is made, the download
\* is asked for and, unless raise_for_status() raises, the archive is opened
\* for writing.
Download ==
    /\ pc = "download"
    /\ \E st \in {200, 500} :
          IF st >= 400 THEN Fail(<<"g", "e", "t">>, TRUE)
          ELSE /\ tmpdir' = "partial"
               /\ pc' = "download_body"
               /\ polls' = <<>> /\ clock' = 0
               /\ UNCHANGED <<fixed, remote, run, idx, calls, clean, prev>>
               /\ UNCHANGED <<part_pos, parent_id, ee_id, updated, ce_list, ee_list, issue_pos, url, page, items>>

\* How the body of the download's response may arrive: all of it; cut short
\* with iter_content raising; or cut short with iter_content ending as after
\* the last chunk (the length of what arrived is not compared with anything).
BodyOutcomes == {"whole", "raise", "short"}

\* Lines 159-161: the chunks of the response are written to the archive.
\* Unless iter_content raises, download_export returns and migrate_repo goes
\* on to import_project (line 397), with the archive whole or cut short.
DownloadBody ==
    /\ pc = "download_body"
    /\ \E body \in BodyOutcomes :
          IF body = "raise" THEN Fail(<<"b", "o", "d", "y">>, TRUE)
          ELSE /\ Logged("download", RepoPath, 0, 0)
               /\ tmpdir' = IF body = "whole" THEN "full" ELSE "partial"
               /\ pc' = "import_post"
               /\ UNCHANGED <<fixed, remote, run, idx, clean, prev>>
               /\ UNCHANGED <<part_pos, parent_id, ee_id, polls, updated, ce_list, ee_list, issue_pos, url, clock, page, items>>

\* Mutant of needs_resolution: the import call's answer is trusted to carry
\* an id.
needs_resolution_never(id) == FALSE

\* The test of line 407 on ee_project_id of line 406 (0 is None: the answer
\* was empty or had no id).
needs_resolution(id) == id = 0

\* import_project (lines 345-353) called at line 397, and the end of the with
\* block. The destination creates the project in the namespace and answers
\* with or without its id; or it accepts the upload and creates nothing.
Import ==
    /\ pc = "import_post"
    /\ \E st \in (IF ee_proj.exists THEN {400} ELSE {201, 500}) :
          IF api_post_form(st, AnswerBody) = "raise" THEN Fail(<<"p", "o", "s", "t">>, TRUE)
          ELSE \E created \in BOOLEAN, with_id \in BOOLEAN :
                  /\ with_id => created
                  /\ IF created
                     THEN /\ ee_proj' = [exists |-> TRUE, id |-> next_id,
                                         path |-> path_of(GroupParts, Len(GroupParts))
                                                      \o <<"/">> \o ProjectName,
                                         file |-> cfg.ce_file, issues |-> cfg.ee_issues]
                          /\ next_id' = next_id + 1
                          /\ clean' = clean
                     ELSE /\ UNCHANGED <<ee_proj, next_id>>
                          /\ clean' = FALSE
                  /\ Logged("import", DestFullPath, IF with_id THEN next_id ELSE 0,
                            IF created THEN 1 ELSE 0)
                  /\ ee_id' = IF with_id THEN next_id ELSE 0
                  /\ tmpdir' = with_exit(tmpdir)
                  /\ pc' = IF needs_resolution(IF with_id THEN next_id ELSE 0)
                           THEN "resolve_path" ELSE "resolve_id"
                  /\ UNCHANGED <<fixed, ee_groups, ce_issues, run, idx, prev>>
                  /\ UNCHANGED <<part_pos, parent_id, polls, updated, ce_list, ee_list, issue_pos, url, clock, page, items>>

\* Lines 408-411: the import call gave no id; the project is looked up by
\* its full path.
ResolveByPath ==
    /\ pc = "resolve_path"
    /\ \E st \in GetStatuses(ee_proj.exists /\ ee_proj.path = unquote(quote(DestFullPath))) :
          CASE api_get(st, AnswerBody) = "json" ->
                   /\ Logged("resolved", DestFullPath, ee_proj.id, 0)
                   /\ ee_id' = ee_proj.id
                   /\ pc' = "import_wait"
                   /\ UNCHANGED <<fixed, remote, run, idx, clean, prev>>
                   /\ UNCHANGED <<part_pos, parent_id, polls, tmpdir, updated, ce_list, ee_list, issue_pos, url, clock, page, items>>
            [] api_get(st, AnswerBody) = "none" -> Fail(<<"n", "o", " ", "i", "d">>, TRUE)
            [] OTHER -> Fail(<<"g", "e", "t">>, TRUE)

\* Line 413: the import call gave an id; the project is fetched by it.
ResolveById ==
    /\ pc = "resolve_id"
    /\ \E st \in GetStatuses(ee_proj.exists /\ ee_proj.id = ee_id) :
          IF api_get(st, AnswerBody) = "raise" THEN Fail(<<"g", "e", "t">>, TRUE)
          ELSE /\ pc' = "import_wait"
               /\ UNCHANGED <<fixed, remote, run, idx, locals, calls, clean, prev>>

\* wait_for_import (lines 164-177), one turn of its loop.
WaitImport ==
    /\ pc = "import_wait"
    /\ IF DeadlinePassed
       THEN FailPolling(<<"t", "i", "m", "e", "d">>, polls)
       ELSE \E status \in PollResults, took \in RequestTimes :
               CASE wait_for_import(status) = "return" ->
                        /\ Logged("import_finished", DestFullPath, ee_id, 0)
                        /\ pc' = "ee_reget"
                        /\ polls' = Append(polls, status)
                        /\ clock' = 0
                        /\ UNCHANGED <<fixed, remote, run, idx, clean, prev>>
                        /\ UNCHANGED <<part_pos, parent_id, ee_id, tmpdir, updated, ce_list, ee_list, issue_pos, url, page, items>>
                 [] wait_for_import(status) = "sleep" ->
                        /\ polls' = Append(polls, status)
                        /\ clock' = after_sleep(clock, took)
                        /\ UNCHANGED <<fixed, remote, run, pc, idx, calls, clean, prev>>
                        /\ UNCHANGED <<part_pos, parent_id, ee_id, tmpdir, updated, ce_list, ee_list, issue_pos, url, page, items>>
                 [] wait_for_import(status) = "raise" ->
                        FailPolling(<<"i", "m", "p", "o", "r", "t">>, Append(polls, status))
                 [] OTHER -> FailPolling(<<"g", "e", "t">>, Append(polls, status))

\* Line 416: the project is fetched again by its id; update_ci_includes
\* raises at line 247 when it is None.
RefetchProject ==
    /\ pc = "ee_reget"
    /\ \E st \in GetStatuses(ee_proj.exists /\ ee_proj.id = ee_id) :
          IF api_get(st, AnswerBody) = "json"
          THEN /\ pc' = "ci_get"
               /\ polls' = <<>> /\ clock' = 0
               /\ UNCHANGED <<fixed, remote, run, idx, calls, clean, prev>>
               /\ UNCHANGED <<part_pos, parent_id, ee_id, tmpdir, updated, ce_list, ee_list, issue_pos, url, page, items>>
          ELSE Fail(<<"g", "e", "t">>, TRUE)

(***************************************************************************)
(* update_ci_includes (lines 246-265).                                     *)
(***************************************************************************)
\* Lines 249-262: the file is read, decoded and rewritten; nothing is
\* written when there is no file or the text did not change. What the
\* rewriter raises is not caught here, so migrate_repo raises it.
GetCiFile ==
    /\ pc = "ci_get"
    /\ \E st \in GetStatuses(ee_proj.file.present) :
          CASE api_get(st, AnswerBody) = "json" ->
                   LET new == prefix_infra_includes(ee_proj.file.text, cfg.include_prefix)
                   IN IF Raised(new)
                      THEN Fail(<<"r", "e", ".", "s", "u", "b">>, FALSE)
                      ELSE /\ Logged("update_ci_includes", DestFullPath, ee_id, 0)
                           /\ IF new = ee_proj.file.text
                              THEN pc' = "rc_ce" /\ updated' = <<>>
                              ELSE pc' = "ci_put" /\ updated' = new
                           /\ UNCHANGED <<fixed, remote, run, idx, clean, prev>>
                           /\ UNCHANGED <<part_pos, parent_id, ee_id, polls, tmpdir, ce_list, ee_list, issue_pos, url, clock, page, items>>
            [] api_get(st, AnswerBody) = "none" ->
                   /\ Logged("update_ci_includes", DestFullPath, ee_id, 0)
                   /\ pc' = "rc_ce"
                   /\ UNCHANGED <<fixed, remote, run, idx, locals, clean, prev>>
            [] OTHER -> Fail(<<"g", "e", "t">>, TRUE)

\* update_file (lines 200-207) called at line 264.
UpdateCiFile ==
    /\ pc = "ci_put"
    /\ \E st \in {200, 500} :
          IF api_put_form(st, AnswerBody) = "raise" THEN Fail(<<"p", "u", "t">>, TRUE)
          ELSE /\ ee_proj' = [ee_proj EXCEPT !.file.text = updated]
               /\ Logged("update_file", DestFullPath, ee_id, 0)
               /\ updated' = <<>>
               /\ pc' = "rc_ce"
               /\ UNCHANGED <<fixed, ee_groups, next_id, ce_issues, run, idx, clean, prev>>
               /\ UNCHANGED <<part_pos, parent_id, ee_id, polls, tmpdir, ce_list, ee_list, issue_pos, url, clock, page, items>>

(***************************************************************************)
(* reconcile_issues (lines 300-337) and close_ce_issue_with_link (278-297).*)
(***************************************************************************)
\* The source's issue with a given internal id: its position in ce_issues.
CeIndex(iid) == CHOOSE n \in 1..Len(ce_issues) : ce_issues[n].iid = iid

\* per_page of api_get_all (line 63).
PER_PAGE == 100

\* What the server answers to the request of line 66 for a page of a list.
page_of(list, number) ==
    SubSeq(list, (number - 1) * PER_PAGE + 1,
           IF number * PER_PAGE < Len(list) THEN number * PER_PAGE ELSE Len(list))

\* Lines 304-309: the source project's issues, all states, by internal id.
\* One turn of the loop of api_get_all (lines 62-73): the request of a page;
\* an empty page ends the listing, any other is added to items.
ListSourceIssues ==
    /\ pc = "rc_ce"
    /\ \E st \in {200, 500} :
          IF api_get(st, AnswerBody) = "raise" THEN Fail(<<"g", "e", "t">>, TRUE)
          ELSE LET payload == page_of(ce_issues, page)
               IN /\ IF page = 1
                     THEN Logged("reconcile_issues", DestFullPath, ee_id, 0)
                     ELSE UNCHANGED calls
                  /\ IF payload = <<>>
                     THEN /\ ce_list' = items
                          /\ items' = <<>>
                          /\ page' = 1
                          /\ pc' = "rc_ee"
                     ELSE /\ items' = items \o payload
                          /\ page' = page + 1
                          /\ UNCHANGED <<pc, ce_list>>
                  /\ UNCHANGED <<fixed, remote, run, idx, clean, prev>>
                  /\ UNCHANGED <<part_pos, parent_id, ee_id, polls, clock, tmpdir, updated, ee_list, issue_pos, url>>

\* Lines 310-322: the destination project's issues, a page at each turn of
\* api_get_all's loop; after the last page the count warning.
ListDestIssues ==
    /\ pc = "rc_ee"
    /\ \E st \in {200, 500} :
          IF api_get(st, AnswerBody) = "raise" THEN Fail(<<"g", "e", "t">>, TRUE)
          ELSE LET payload == page_of(ee_proj.issues, page)
               IN /\ IF payload = <<>>
                     THEN /\ ee_list' = items
                          /\ items' = <<>>
                          /\ page' = 1
                          /\ issue_pos' = 1
                          /\ pc' = "rc_loop"
                          /\ IF Len(ce_list) # Len(items)
                             THEN Logged("warning_count", <<>>, Len(ce_list), Len(items))
                             ELSE UNCHANGED calls
                     ELSE /\ items' = items \o payload
                          /\ page' = page + 1
                          /\ UNCHANGED <<pc, ee_list, issue_pos, calls>>
                  /\ UNCHANGED <<fixed, remote, run, idx, clean, prev>>
                  /\ UNCHANGED <<part_pos, parent_id, ee_id, polls, clock, tmpdir, updated, ce_list, url>>

\* Mutant of must_close: the state of the source issue is not looked at.
must_close_any_state(ce_issue, ee_issue) == ee_issue.web_url # <<>>

\* The tests of lines 333 and 335: the source issue is open and its
\* counterpart has an address.
must_close(ce_issue, ee_issue) ==
    ce_issue.state = "opened" /\ ee_issue.web_url # <<>>

\* Lines 324-337, one turn of the loop up to the call of line 336; after the
\* last issue reconcile_issues and migrate_repo return.
NextIssue ==
    /\ pc = "rc_loop"
    /\ IF issue_pos > Len(ce_list)
       THEN /\ Logged("returned", <<>>, 0, 0)
            /\ pc' = "loop"
            /\ idx' = idx + 1
            /\ ResetLocals
       ELSE LET ce_issue == ce_list[issue_pos]
                c == counterpart(ee_list, ce_issue)
            IN /\ IF c = 0
                  THEN /\ Logged("warning_unmatched", <<>>, ce_issue.iid, 0)
                       /\ issue_pos' = issue_pos + 1
                       /\ UNCHANGED <<pc, url>>
                  ELSE IF must_close(ce_issue, ee_list[c])
                  THEN /\ Logged("matched", ee_list[c].web_url, ce_issue.iid, ee_list[c].iid)
                       /\ url' = ee_list[c].web_url
                       /\ pc' = "notes_get"
                       /\ UNCHANGED issue_pos
                  ELSE /\ Logged("skipped", <<>>, ce_issue.iid, ee_list[c].iid)
                       /\ issue_pos' = issue_pos + 1
                       /\ UNCHANGED <<pc, url>>
               /\ UNCHANGED <<idx, part_pos, parent_id, ee_id, polls, tmpdir, updated, ce_list, ee_list, clock, page, items>>
    /\ UNCHANGED <<fixed, remote, run, clean, prev>>

\* Lines 279-285: the notes of the source issue are read, a page at each
\* turn of api_get_all's loop, and after the last page searched.
ListNotes ==
    /\ pc = "notes_get"
    /\ \E st \in {200, 500} :
          IF api_get(st, AnswerBody) = "raise" THEN Fail(<<"g", "e", "t">>, TRUE)
          ELSE LET payload == page_of(ce_issues[CeIndex(ce_list[issue_pos].iid)].notes, page)
               IN /\ IF payload = <<>>
                     THEN /\ Logged("notes", url, ce_list[issue_pos].iid, Len(items))
                          /\ pc' = IF url # <<>> /\ ~ce_has_migration_note(items, url)
                                   THEN "note_post" ELSE "issue_put"
                          /\ items' = <<>>
                          /\ page' = 1
                     ELSE /\ items' = items \o payload
                          /\ page' = page + 1
                          /\ UNCHANGED <<pc, calls>>
                  /\ UNCHANGED <<fixed, remote, run, idx, clean, prev>>
                  /\ UNCHANGED <<part_pos, parent_id, ee_id, polls, clock, tmpdir, updated, ce_list, ee_list,
                                 issue_pos, url>>

\* Lines 286-291: the migration note is posted.
PostNote ==
    /\ pc = "note_post"
    /\ \E st \in {201, 500} :
          IF api_post(st, AnswerBody) = "raise" THEN Fail(<<"p", "o", "s", "t">>, TRUE)
          ELSE LET n == CeIndex(ce_list[issue_pos].iid)
               IN /\ ce_issues' = [ce_issues EXCEPT
                                      ![n].notes = Append(@, MIGRATED \o url)]
                  /\ Logged("post_note", MIGRATED \o url, ce_list[issue_pos].iid, 0)
                  /\ pc' = "issue_put"
                  /\ UNCHANGED <<fixed, ee_groups, ee_proj, next_id, run, idx, locals, clean, prev>>

\* Lines 292-297: the source issue is closed; the loop of line 324 goes on.
CloseIssue ==
    /\ pc = "issue_put"
    /\ \E st \in {200, 500} :
          IF api_put(st, AnswerBody) = "raise" THEN Fail(<<"p", "u", "t">>, TRUE)
          ELSE LET n == CeIndex(ce_list[issue_pos].iid)
               IN /\ ce_issues' = [ce_issues EXCEPT ![n].state = "closed"]
                  /\ Logged("close", url, ce_list[issue_pos].iid,
                            IF ce_issues[n].state = "closed" THEN 1 ELSE 0)
                  /\ issue_pos' = issue_pos + 1
                  /\ url' = <<>>
                  /\ pc' = "rc_loop"
                  /\ UNCHANGED <<fixed, ee_groups, ee_proj, next_id, run, idx, clean, prev>>
                  /\ UNCHANGED <<part_pos, parent_id, ee_id, polls, tmpdir, updated, ce_list, ee_list, clock, page, items>>

(***************************************************************************)
(* The specifications.                                                     *)
(***************************************************************************)
\* The rewriter's variables while the batch runs, and the batch's while the
\* rewriter is applied.
RIdle == rw_text = <<>> /\ rw_prefix = <<>> /\ rw_out = <<>>

\* The Remote Client's variables while it is not the one looked at.
HIdle ==
    /\ http_call = "none"
    /\ http_status = 0
    /\ http_body = "empty"
    /\ http_result = "pending"

\* The destination after an earlier import of the project under "r/a/b".
ImportedBefore(root, sc, file) ==
    /\ ee_groups = { Group(root, 1, 0),
                     Group(root \o <<"/", "a">>, 2, 1),
                     Group(root \o <<"/", "a", "/", "b">>, 3, 2) }
    /\ ee_proj = [exists |-> TRUE, id |-> 4,
                  path |-> root \o <<"/">> \o CE_PROJECT_PATH,
                  file |-> file, issues |-> sc.ee]
    /\ next_id = 5

\* The state when main enters its loop for the first time (line 459): the
\* configuration is read, the input file is parsed.
MInit ==
    \E raw_root \in RawRoots, raw_prefix \in BatchRawPrefixes, lines \in InputFiles,
       file \in CiFiles, sc \in IssueScenarios, before \in BOOLEAN :
        /\ dest_root_of(raw_root) # <<>>
        /\ repos_of(lines) # <<>>
        /\ cfg = [repos |-> repos_of(lines),
                  dest_root_group |-> dest_root_of(raw_root),
                  include_prefix |-> include_prefix_of(raw_prefix),
                  ce_file |-> file,
                  ee_issues |-> sc.ee]
        /\ IF before
           THEN ImportedBefore(dest_root_of(raw_root), sc, file)
           ELSE ee_groups = {} /\ ee_proj = NoProject /\ next_id = 1
        /\ ce_issues = sc.ce
        /\ run = 1
        /\ pc = "loop"
        /\ idx = 1
        /\ part_pos = 0 /\ parent_id = 0 /\ ee_id = 0 /\ polls = <<>> /\ clock = 0
        /\ page = 1 /\ items = <<>> /\ tmpdir = "none"
        /\ updated = <<>> /\ ce_list = <<>> /\ ee_list = <<>> /\ issue_pos = 0 /\ url = <<>>
        /\ calls = <<>>
        /\ clean = TRUE
        /\ prev = [valid |-> FALSE, ee_groups |-> {}, ee_proj |-> NoProject,
                   ce_issues |-> <<>>]

MIdle ==
    /\ cfg = [repos |-> <<>>, dest_root_group |-> <<>>, include_prefix |-> <<>>,
              ce_file |-> NoFile, ee_issues |-> <<>>]
    /\ ee_groups = {} /\ ee_proj = NoProject /\ next_id = 1
    /\ ce_issues = <<>>
    /\ run = 1
    /\ pc = "idle"
    /\ idx = 1
    /\ part_pos = 0 /\ parent_id = 0 /\ ee_id = 0 /\ polls = <<>> /\ clock = 0
        /\ page = 1 /\ items = <<>> /\ tmpdir = "none"
    /\ updated = <<>> /\ ce_list = <<>> /\ ee_list = <<>> /\ issue_pos = 0 /\ url = <<>>
    /\ calls = <<>>
    /\ clean = TRUE
    /\ prev = [valid |-> FALSE, ee_groups |-> {}, ee_proj |-> NoProject,
               ce_issues |-> <<>>]

Init == RIdle /\ HIdle /\ MInit

Next ==
    \/ Begin \/ Finish \/ Rerun \/ Interrupt
    \/ EnsureGroupLookup \/ EnsureGroupCreate \/ EnsureGroupRelookup
    \/ GetSourceProject \/ GetDestProject
    \/ TriggerExport \/ WaitExport \/ Download \/ DownloadBody \/ Import
    \/ ResolveByPath \/ ResolveById \/ WaitImport \/ RefetchProject
    \/ GetCiFile \/ UpdateCiFile
    \/ ListSourceIssues \/ ListDestIssues \/ NextIssue
    \/ ListNotes \/ PostNote \/ CloseIssue

\* The batch, run up to MaxRuns times over one input, no one else acting on
\* the two instances.
Spec == Init /\ [][Next]_vars

RaceNext == Next \/ ExternalCreatesGroup

\* The inputs of the batch whose groups another actor may create: those
\* with the issues of AgreeingIssues.
RaceInit == Init /\ ce_issues = AgreeingIssues.ce /\ cfg.ee_issues = AgreeingIssues.ee

\* The batch with another actor creating groups on the destination.
SpecRace == RaceInit /\ [][RaceNext]_vars

RInit ==
    /\ rw_text \in Texts
    /\ rw_prefix \in IncludePrefixes
    /\ rw_out = <<>>
    /\ HIdle
    /\ MIdle

RNext == RewriteFirst \/ RewriteAgain

\* The rewriter alone, applied up to MaxPasses times to one text.
SpecRewrite == RInit /\ [][RNext]_vars

\* The batch with polling loops that are not starved: a loop that can take
\* its next turn (a poll, or the test of the deadline) takes it.
SpecPoll == Init /\ [][Next]_vars /\ WF_vars(WaitExport) /\ WF_vars(WaitImport)

HInit ==
    /\ http_call \in HttpCalls
    /\ http_status \in HttpStatuses
    /\ http_body \in HttpBodies
    /\ http_result = "pending"
    /\ RIdle
    /\ MIdle

HNext == ApiGet \/ ApiPost \/ ApiPostForm \/ ApiPut \/ ApiPutForm

\* The Remote Client alone: one call, one response.
SpecClient == HInit /\ [][HNext]_vars

(***************************************************************************)
(* Properties of the batch, checked under Spec (C6 under SpecRace).        *)
(***************************************************************************)
\* This run's record is whole (the run was not interrupted).
Recorded == calls = <<>> \/ calls[1].op # "interrupted"

WriteOps == {"create_group", "import", "update_file", "post_note", "close"}

TransferOps ==
    {"export", "export_finished", "download", "import", "import_finished", "resolved"}

TransferPcs ==
    {"export_post", "export_wait", "download", "download_body", "import_post",
     "resolve_path",
     "resolve_id", "import_wait", "ee_reget"}

\* The destination group segments of record r, destination root first.
GroupSegments(r) ==
    group_parts_of(dest_parts_of(cfg.dest_root_group, parts_of(repo_path_of(cfg.repos[r]))))

\* The entries of calls with a given op that belong to record r.
EntriesOf(op, r) == SelectSeq(calls, LAMBDA e : e.op = op /\ e.repo = r)

HasEntry(op, r) == \E n \in 1..Len(calls) : calls[n].op = op /\ calls[n].repo = r

\* C2 (as claimed): a run that follows an undisturbed run over the same input
\* leaves both instances as it found them and makes no write call: no group
\* or project is created, the file is not updated, no note is posted and no
\* issue is closed.
C2_SecondRunChangesNothing ==
    (pc = "done" /\ Recorded /\ clean /\ prev.valid) =>
        /\ ee_groups = prev.ee_groups
        /\ ee_proj = prev.ee_proj
        /\ ce_issues = prev.ce_issues
        /\ \A n \in 1..Len(calls) : calls[n].op \notin WriteOps

\* C5: for each record, ensure_group is called for the group segments from
\* left to right, once each, with the full paths g1, g1/g2, ...; the first call
\* has no parent id, each later call has the id the call before returned; a
\* group is created only under a parent that was found or created before;
\* once the groups are done every segment has been ensured.
C5_GroupsInOrder ==
    Recorded =>
        \A r \in 1..Len(cfg.repos) :
            LET segs == GroupSegments(r)
                eg == EntriesOf("ensure_group", r)
                rt == EntriesOf("ensured", r)
            IN /\ Len(eg) <= Len(segs)
               /\ Len(rt) <= Len(eg)
               /\ Len(eg) <= Len(rt) + 1
               /\ \A j \in 1..Len(eg) :
                      /\ eg[j].path = join(<<"/">>, SubSeq(segs, 1, j))
                      /\ eg[j].a = IF j = 1 THEN 0 ELSE rt[j - 1].a
               /\ \A j \in 1..Len(rt) : rt[j].path = eg[j].path
               /\ HasEntry("ce_project", r) => Len(rt) = Len(segs)
               /\ \A n \in 1..Len(calls) :
                      (calls[n].op = "create_group" /\ calls[n].repo = r) =>
                          LET j == Len(SelectSeq(SubSeq(calls, 1, n),
                                          LAMBDA e : e.op = "ensure_group" /\ e.repo = r))
                          IN /\ calls[n].path = eg[j].path
                             /\ calls[n].a = eg[j].a
                             /\ j > 1 => \E g \in ee_groups :
                                            g.id = calls[n].a /\ g.path = eg[j - 1].path

\* C5 witness: a record with three group segments, all ensured, the last two
\* created under the parent ensured just before.
C5_Witness ==
    /\ Recorded
    /\ \E r \in 1..Len(cfg.repos) :
          /\ Len(GroupSegments(r)) = 3
          /\ Len(EntriesOf("ensured", r)) = 3
          /\ Len(EntriesOf("create_group", r)) >= 2
          /\ EntriesOf("ensured", r)[2].b = 1
          /\ EntriesOf("ensured", r)[3].b = 1
          /\ HasEntry("ce_project", r)

\* ensure_group's last step was for this path: the entry it left.
LastEntry(log) == log[Len(log)]

\* C6: under a race with another creator there is at most one group per path
\* and ensure_group returns the id of the group at its path; a create call on
\* a path that was taken meanwhile is answered with 400 or 409 and leads to
\* the second lookup, never to an error; the second lookup returns the group's
\* id with wasCreated = false when it finds the group, and the error
\* propagates when it finds none or when the create call failed otherwise.
C6_RaceStep ==
    LET path == CurrentPath
        here == {g \in ee_groups : g.path = path}
    IN /\ (pc = "eg_post" /\ here # {} /\ pc' # "done" /\ calls' # calls) =>
              /\ pc' = "eg_reget"
              /\ LastEntry(calls').op = "conflict"
       /\ (pc = "eg_post" /\ calls' # calls /\ LastEntry(calls').op = "failed") =>
              /\ here = {}
              /\ LastEntry(calls').path = <<"p", "o", "s", "t">>
       /\ (pc = "eg_reget" /\ calls' # calls /\ LastEntry(calls').op = "ensured") =>
              /\ LastEntry(calls').b = 0
              /\ \E g \in here : g.id = LastEntry(calls').a
       /\ (pc = "eg_reget" /\ here = {} /\ pc' # "done" /\ calls' # calls
             /\ LastEntry(calls').op # "external") =>
              LastEntry(calls').op = "failed"
       /\ (pc = "eg_reget" /\ here # {} /\ pc' # "done" /\ calls' # calls) =>
              LastEntry(calls').op \in {"ensured", "failed"}

C6_OneGroupPerPath ==
    /\ \A g1, g2 \in ee_groups : g1.path = g2.path => g1 = g2
    /\ Recorded =>
          \A n \in 1..Len(calls) :
              calls[n].op = "ensured" =>
                  \E g \in ee_groups : g.path = calls[n].path /\ g.id = calls[n].a

C6_RaceConverges == []C6_OneGroupPerPath /\ [][C6_RaceStep]_vars

\* C6 witness: ensure_group looked the path up, another actor created the
\* group, the create call met the conflict and the second lookup returned the
\* other actor's group.
C6_Witness ==
    \E n \in 1..Len(calls) :
        /\ n + 3 <= Len(calls)
        /\ calls[n].op = "ensure_group"
        /\ calls[n + 1].op = "external"
        /\ calls[n + 2].op = "conflict"
        /\ calls[n + 3].op = "ensured"
        /\ calls[n + 3].b = 0
        /\ calls[n + 3].a = calls[n + 1].b
        /\ calls[n + 3].path = calls[n].path

\* The destination project of the current record exists.
DestProjectExists == ee_proj.exists /\ ee_proj.path = DestFullPath

\* C7: when the destination project exists at the destination full path,
\* migrate_repo triggers no export, downloads and imports nothing and goes on
\* to update_ci_includes and then reconcile_issues (a failing call ends the
\* record as for any record); a group that exists gets no create call.
C7_ExistingProjectSkipsTransfer ==
    /\ (pc \in {"export_post", "export_wait", "download", "download_body",
               "import_post"}) =>
           ~DestProjectExists
    /\ pc = "eg_post" => GroupsAt(quote(CurrentPath)) = {}
    /\ Recorded =>
          \A n \in 1..Len(calls) :
              calls[n].op = "exists" =>
                  LET r == calls[n].repo
                      after == SelectSeq(SubSeq(calls, n + 1, Len(calls)),
                                         LAMBDA e : e.repo = r)
                  IN /\ \A m \in 1..Len(calls) :
                            calls[m].repo = r => calls[m].op \notin TransferOps
                     /\ (idx = r /\ pc # "loop") => pc \notin TransferPcs
                     /\ after # <<>> => after[1].op \in {"update_ci_includes", "failed"}
                     /\ (idx = r /\ pc # "loop" /\ after = <<>>) => pc = "ci_get"
                     /\ \A m \in 1..Len(after) :
                            after[m].op = "reconcile_issues" =>
                                \E u \in 1..(m - 1) : after[u].op = "update_ci_includes"
                     /\ \A m \in 1..Len(after) :
                            after[m].op = "returned" =>
                                \E u \in 1..(m - 1) : after[u].op = "reconcile_issues"

\* C7 witness: a record whose groups and project all existed has returned
\* after the config rewrite and the reconciliation.
C7_Witness ==
    /\ Recorded
    /\ \E r \in 1..Len(cfg.repos) :
          /\ HasEntry("exists", r)
          /\ HasEntry("update_ci_includes", r)
          /\ HasEntry("reconcile_issues", r)
          /\ HasEntry("returned", r)
          /\ Len(GroupSegments(r)) = 3
          /\ \A j \in 1..3 : EntriesOf("ensured", r)[j].b = 0
          /\ ~HasEntry("create_group", r)

\* The records main has started migrate_repo on in this run, in order.
Attempts == SelectSeq(calls, LAMBDA e : e.op = "migrate_repo")

\* C8: whatever migrate_repo raises, main goes on: the records are attempted
\* in input order, each once, and when main returns every record of the input
\* has been attempted.
C8_EveryRecordAttempted ==
    Recorded =>
        /\ Len(Attempts) <= Len(cfg.repos)
        /\ \A j \in 1..Len(Attempts) :
               Attempts[j].repo = j /\ Attempts[j].path = cfg.repos[j]
        /\ pc = "done" => Len(Attempts) = Len(cfg.repos)
        /\ (pc \notin {"done", "loop"}) => Len(Attempts) = idx

\* C8 witness: main has returned, a record failed and a later record was
\* migrated to the end.
C8_Witness ==
    /\ pc = "done"
    /\ Recorded
    /\ \E r1, r2 \in 1..Len(cfg.repos) :
          /\ r1 < r2
          /\ HasEntry("failed", r1)
          /\ HasEntry("reconcile_issues", r2)
          /\ HasEntry("returned", r2)

\* The notes of the source issue close_ce_issue_with_link is working on.
CurrentNotes == ce_issues[CeIndex(ce_list[issue_pos].iid)].notes

\* close_ce_issue_with_link from the search of the notes on, given what
\* "the issue already carries the note" means (found).
CloseSteps(found) ==
    LET n == CeIndex(ce_list[issue_pos].iid)
    IN /\ (pc = "notes_get" /\ pc' \in {"note_post", "issue_put"}) =>
              (pc' = "issue_put" <=> found)
       /\ (pc = "note_post" /\ pc' \notin {"loop", "done"}) =>
              /\ pc' = "issue_put"
              /\ ce_issues'[n].notes = Append(ce_issues[n].notes, MIGRATED \o url)
              /\ ce_issues'[n].state = ce_issues[n].state
       /\ (pc = "issue_put" /\ pc' \notin {"loop", "done"}) =>
              /\ ce_issues'[n].state = "closed"
              /\ ce_issues'[n].notes = ce_issues[n].notes
       /\ pc \notin {"note_post", "issue_put"} => ce_issues' = ce_issues

\* C9 (as claimed): no note is posted when a note's text is exactly
\* "Migrated to EE: <address>", and exactly one is posted when there is no
\* such note; the issue is closed in both cases.
C9_ExactNoteSuppresses ==
    [][CloseSteps(\E m \in 1..Len(CurrentNotes) :
                      CurrentNotes[m] = MIGRATED \o url)]_vars

\* The notes of a source issue whose text is "Migrated to EE: " and an
\* address.
CanonicalNotes(issue) ==
    {m \in 1..Len(issue.notes) :
        /\ StartsWith(issue.notes[m], MIGRATED)
        /\ Len(issue.notes[m]) > Len(MIGRATED)
        /\ strip(issue.notes[m]) = issue.notes[m]}

\* C10: after any runs, interrupted or failed ones included, every source
\* issue carries at most one note "Migrated to EE: <address>".
C10_AtMostOneNote ==
    \A q \in 1..Len(ce_issues) : Cardinality(CanonicalNotes(ce_issues[q])) <= 1

\* C10 witness: a run ended between the note and the close; in the next run
\* the issue, carrying the note, was closed without a second note.
C10_Witness ==
    /\ run >= 2
    /\ ~prev.valid
    /\ \E q \in 1..Len(ce_issues) :
          /\ prev.ce_issues[q].state = "opened"
          /\ Cardinality(CanonicalNotes(prev.ce_issues[q])) = 1
          /\ ce_issues[q].state = "closed"
          /\ Cardinality(CanonicalNotes(ce_issues[q])) = 1
          /\ \E n \in 1..Len(calls) :
                 calls[n].op = "close" /\ calls[n].a = ce_issues[q].iid

(***************************************************************************)
(* Properties of the Remote Client, checked under SpecClient.              *)
(***************************************************************************)
\* C14: api_get gives the body on 200 and None on 404, and raises on every
\* other status outside 200..299; it never gives None for a status outside
\* 200..299 other than 404.
C14_GetStatusMapping ==
    (http_call = "api_get" /\ http_result # "pending") =>
        /\ (http_status = 200 /\ http_body = "json") => http_result = "json"
        /\ http_status = 404 => http_result = "none"
        /\ (http_status \notin 200..299 /\ http_status # 404) => http_result = "raise"

(***************************************************************************)
(* Properties of the reconciler, checked under Spec.                       *)
(***************************************************************************)
ReconcilePcs == {"rc_loop", "notes_get", "note_post", "issue_put"}

\* Where the current call of reconcile_issues starts in this run's record.
ReconcileStart ==
    CHOOSE n \in 1..Len(calls) :
        /\ calls[n].op = "reconcile_issues"
        /\ \A m \in (n + 1)..Len(calls) : calls[m].op # "reconcile_issues"

SinceReconcile == SubSeq(calls, ReconcileStart + 1, Len(calls))

\* What the current call has decided for the source issues so far, in order.
Decisions ==
    SelectSeq(SinceReconcile,
              LAMBDA e : e.op \in {"matched", "skipped", "warning_unmatched"})

SameIid(ce_issue) == {n \in 1..Len(ee_list) : ee_list[n].iid = ce_issue.iid}

SamePair(ce_issue) ==
    {n \in 1..Len(ee_list) : /\ ee_list[n].title = ce_issue.title
                             /\ ee_list[n].created_at = ce_issue.created_at}

\* C11: the counterpart of a source issue is the destination issue with its
\* internal id when there is one, else the one with its title and creation
\* time; with neither there is a warning, no note and no close for it, and
\* the loop goes on with the next source issue.
C11_IssueMatching ==
    (pc \in ReconcilePcs /\ Recorded) =>
        /\ Len(Decisions) = IF pc = "rc_loop" THEN issue_pos - 1 ELSE issue_pos
        /\ \A j \in 1..Len(Decisions) :
              LET c == ce_list[j]
                  d == Decisions[j]
              IN /\ d.a = c.iid
                 /\ SameIid(c) # {} =>
                        /\ d.op \in {"matched", "skipped"}
                        /\ \E n \in SameIid(c) : ee_list[n].iid = d.b
                 /\ (SameIid(c) = {} /\ SamePair(c) # {}) =>
                        /\ d.op \in {"matched", "skipped"}
                        /\ \E n \in SamePair(c) : ee_list[n].iid = d.b
                 /\ (SameIid(c) = {} /\ SamePair(c) = {}) =>
                        /\ d.op = "warning_unmatched"
                        /\ \A m \in 1..Len(SinceReconcile) :
                               SinceReconcile[m].op \in {"notes", "post_note", "close"} =>
                                   SinceReconcile[m].a # c.iid
                        /\ ce_issues[CeIndex(c.iid)] = c

\* C11 witness: one call of reconcile_issues has gone through all source
\* issues, matching one by title and creation time and one by internal id.
C11_Witness ==
    /\ pc = "rc_loop" /\ Recorded
    /\ issue_pos > Len(ce_list)
    /\ \E j \in 1..Len(Decisions) :
          Decisions[j].op = "matched" /\ Decisions[j].a # Decisions[j].b
    /\ \E j \in 1..Len(Decisions) :
          Decisions[j].op \in {"matched", "skipped"} /\ Decisions[j].a = Decisions[j].b

\* C12: reconcile_issues writes nothing on the destination; on the source it
\* only appends a note to, and closes, an issue that was open when fetched
\* and whose counterpart has an address; no issue is ever set to open.
C12_OneDirectional ==
    [][ /\ \A q \in 1..Len(ce_issues) :
              ce_issues[q].state = "closed" => ce_issues'[q].state = "closed"
        /\ pc \in ({"rc_ce", "rc_ee"} \cup ReconcilePcs) =>
              /\ ee_proj' = ee_proj /\ ee_groups' = ee_groups
              /\ \A q \in 1..Len(ce_issues) :
                    ce_issues'[q] # ce_issues[q] =>
                        /\ pc \in {"note_post", "issue_put"}
                        /\ ce_list[issue_pos].iid = ce_issues[q].iid
                        /\ ce_list[issue_pos].state = "opened"
                        /\ ce_issues[q].state = "opened"
                        /\ url # <<>>
                        /\ \E n \in 1..Len(ee_list) : ee_list[n].web_url = url
                        /\ \/ /\ ce_issues'[q].state = ce_issues[q].state
                              /\ ce_issues'[q].notes =
                                     Append(ce_issues[q].notes, MIGRATED \o url)
                           \/ /\ ce_issues'[q].state = "closed"
                              /\ ce_issues'[q].notes = ce_issues[q].notes ]_vars

\* C12 witness: one call of reconcile_issues has closed an open source issue
\* with a note and has passed over a closed one and the destination's issues.
C12_Witness ==
    /\ pc = "rc_loop" /\ Recorded
    /\ issue_pos > Len(ce_list)
    /\ \E j \in 1..Len(ce_list) :
          /\ ce_list[j].state = "closed"
          /\ ce_issues[CeIndex(ce_list[j].iid)] = ce_list[j]
          /\ counterpart(ee_list, ce_list[j]) # 0
    /\ \E m \in 1..Len(SinceReconcile) : SinceReconcile[m].op = "post_note"
    /\ \E m \in 1..Len(SinceReconcile) : SinceReconcile[m].op = "close"
    /\ ee_proj.issues = ee_list

(***************************************************************************)
(* Properties of the transfer, checked under Spec.                         *)
(***************************************************************************)
\* The positions inside the with block of line 392.
InsideWith == {"download_body", "import_post"}

\* C13 (as claimed): outside the with block of migrate_repo, however it was
\* left, there is no temporary directory and no archive; and when
\* import_project is called the archive is fully written.
C13_ArchiveScoped ==
    /\ pc \notin InsideWith => tmpdir = "none"
    /\ pc = "download_body" => tmpdir = "partial"
    /\ pc = "import_post" => tmpdir = "full"

(***************************************************************************)
(* Properties of the polling loops, checked under SpecPoll.                *)
(***************************************************************************)
PollingPcs == {"export_wait", "import_wait"}

\* Where a polling loop returns to, and the message it fails a job with.
AfterPolling == [export_wait |-> "download", import_wait |-> "ee_reget"]

JobFailed == [export_wait |-> <<"e", "x", "p", "o", "r", "t">>,
              import_wait |-> <<"i", "m", "p", "o", "r", "t">>]

NonTerminal(seen) == \A n \in 1..Len(seen) : seen[n] \notin {"finished", "failed", "error"}

\* One turn of a polling loop, given the messages of the errors by which it
\* may end besides the failed job and the deadline.
PollingTurn(others) ==
    (pc \in PollingPcs /\ pc' # "done") =>
        /\ NonTerminal(polls)
        /\ \/ \* it sleeps and polls again
              /\ pc' = pc /\ ~DeadlinePassed /\ calls' = calls
              /\ \E status \in PollResults \ {"finished", "failed", "error"} :
                     polls' = Append(polls, status)
           \/ \* it returns
              /\ pc' = AfterPolling[pc] /\ ~DeadlinePassed
              /\ polls' = Append(polls, "finished")
           \/ \* it raises for the failed job
              /\ pc' = "loop" /\ ~DeadlinePassed
              /\ polls' = Append(polls, "failed")
              /\ LastEntry(calls').op = "failed" /\ LastEntry(calls').path = JobFailed[pc]
           \/ \* it raises for the deadline
              /\ pc' = "loop" /\ DeadlinePassed
              /\ polls' = polls
              /\ LastEntry(calls').op = "failed"
              /\ LastEntry(calls').path = <<"t", "i", "m", "e", "d">>
           \/ \* it ends by another error
              /\ pc' = "loop" /\ ~DeadlinePassed
              /\ polls' = Append(polls, "error")
              /\ LastEntry(calls').op = "failed" /\ LastEntry(calls').path \in others

PollingEnds == \A l \in PollingPcs : (pc = l) ~> (pc # l)

\* C15 (as claimed): each polling loop ends, by a return after a poll that
\* saw "finished", by the failure error at the first poll that sees
\* "failed", or by the timeout error once the deadline has passed, and in no
\* other way; no payload, or another status, makes it sleep and poll again.
C15_ThreeWays == [][PollingTurn({})]_vars /\ PollingEnds

\* C15 (amended): as claimed, with a fourth way for a loop to end: the poll
\* itself is answered with an error status and api_get's error propagates.
C15_FourWays == [][PollingTurn({<<"g", "e", "t">>})]_vars /\ PollingEnds

\* C15 witness: in one run a loop has returned on "finished", and the other
\* has slept on a poll whose request was slow, found its deadline passed
\* and raised the timeout error.
C15_Witness ==
    /\ pc = "loop" /\ Recorded /\ calls # <<>>
    /\ polls # <<>> /\ Len(polls) < MaxPolls /\ NonTerminal(polls)
    /\ LastEntry(calls).op = "failed" /\ LastEntry(calls).path = <<"t", "i", "m", "e", "d">>
    /\ \E n \in 1..Len(calls) : calls[n].op = "export_finished"

(***************************************************************************)
(* Properties of migrate_repo's order of steps, checked under Spec.        *)
(***************************************************************************)
\* The steps of a first-time transfer, in the order of the code.
TransferOrder ==
    <<"absent", "export", "export_finished", "download", "import",
      "import_finished", "update_ci_includes", "reconcile_issues">>

\* The entries of this run's record that belong to record r, in order.
RecordOf(r) == SelectSeq(calls, LAMBDA e : e.repo = r)

PositionsOf(op, log) == {n \in 1..Len(log) : log[n].op = op}

\* C16: for a record whose destination project is absent the steps come in
\* the order export trigger, export seen finished, download, import call,
\* import seen finished, config rewrite, reconciliation; no file update, note
\* post or close comes before the import was seen finished; and nothing
\* comes after a failure.
C16_TransferOrder ==
    /\ pc = "download" => (polls # <<>> /\ polls[Len(polls)] = "finished")
    /\ pc = "ee_reget" => (polls # <<>> /\ polls[Len(polls)] = "finished")
    /\ Recorded =>
          \A r \in 1..Len(cfg.repos) :
              LET log == RecordOf(r)
              IN /\ PositionsOf("absent", log) # {} =>
                       /\ \A k \in 1..Len(TransferOrder) :
                              Cardinality(PositionsOf(TransferOrder[k], log)) <= 1
                       /\ \A k \in 2..Len(TransferOrder) :
                              \A n \in PositionsOf(TransferOrder[k], log) :
                                  \E m \in PositionsOf(TransferOrder[k - 1], log) : m < n
                       /\ \A n \in 1..Len(log) :
                              log[n].op \in {"update_file", "post_note", "close"} =>
                                  \E m \in PositionsOf("import_finished", log) : m < n
                 /\ \A n \in PositionsOf("failed", log) : n = Len(log)
                 /\ (PositionsOf("failed", log) # {} /\ idx = r) => pc \in {"loop", "done"}

\* C16 witness: a first-time transfer has gone through all its steps, the
\* file was updated and an issue closed with its note.
C16_Witness ==
    /\ Recorded
    /\ \E r \in 1..Len(cfg.repos) :
          LET log == RecordOf(r)
          IN /\ \A k \in 1..Len(TransferOrder) : PositionsOf(TransferOrder[k], log) # {}
             /\ PositionsOf("update_file", log) # {}
             /\ PositionsOf("post_note", log) # {}
             /\ PositionsOf("close", log) # {}
             /\ log[Len(log)].op = "returned"

NoId == <<"n", "o", " ", "i", "d">>

\* The full destination path of record r.
DestFullPathOf(r) ==
    LET dest_parts == dest_parts_of(cfg.dest_root_group,
                                    parts_of(repo_path_of(cfg.repos[r])))
    IN path_of(dest_parts, Len(dest_parts))

\* C17: after the import call migrate_repo goes on with the id of the answer
\* when there is one; else it looks the project up by its full destination
\* path and goes on with that id; when the lookup finds nothing it raises,
\* and neither waits for the import nor rewrites the config nor reconciles.
C17_IdentityResolution ==
    Recorded =>
        \A r \in 1..Len(cfg.repos) :
            LET log == RecordOf(r)
            IN \A n \in PositionsOf("import", log) :
                   /\ log[n].a # 0 =>
                          /\ PositionsOf("resolved", log) = {}
                          /\ \A m \in PositionsOf("import_finished", log) :
                                 log[m].a = log[n].a
                          /\ (idx = r /\ pc \in {"resolve_id", "import_wait", "ee_reget"}) =>
                                 ee_id = log[n].a
                   /\ log[n].a = 0 =>
                          /\ (idx = r /\ pc # "loop" /\ n = Len(log)) => pc = "resolve_path"
                          /\ n < Len(log) => log[n + 1].op \in {"resolved", "failed"}
                          /\ (n < Len(log) /\ log[n + 1].op = "resolved") =>
                                 /\ log[n + 1].path = DestFullPathOf(r)
                                 /\ ee_proj.exists /\ ee_proj.path = log[n + 1].path
                                 /\ log[n + 1].a = ee_proj.id
                                 /\ \A m \in PositionsOf("import_finished", log) :
                                        log[m].a = log[n + 1].a
                                 /\ (idx = r /\ pc \in {"import_wait", "ee_reget"}) =>
                                        ee_id = ee_proj.id
                          /\ (log[n].b = 0 /\ n < Len(log)) =>
                                 /\ log[n + 1].op = "failed"
                                 /\ n + 1 = Len(log)
                                 /\ log[n + 1].path \in {NoId, <<"g", "e", "t">>}

\* C17 witness: the import call answered without id, the project was found
\* by its full path and the record was migrated to the end under that id.
C17_Witness ==
    /\ Recorded
    /\ \E r \in 1..Len(cfg.repos) :
          LET log == RecordOf(r)
          IN /\ \E n \in PositionsOf("import", log) :
                    /\ log[n].a = 0 /\ n < Len(log)
                    /\ log[n + 1].op = "resolved" /\ log[n + 1].a # 0
                    /\ \E m \in PositionsOf("import_finished", log) :
                           log[m].a = log[n + 1].a
             /\ log[Len(log)].op = "returned"

\* C18: a destination issue that is the counterpart by internal id of one
\* source issue is never the counterpart by title and creation time of
\* another source issue.
C18_FallbackExcludesMatched ==
    (pc \in ReconcilePcs /\ Recorded) =>
        \A j, k \in 1..Len(Decisions) :
            ( /\ Decisions[j].op \in {"matched", "skipped"}
              /\ Decisions[k].op \in {"matched", "skipped"}
              /\ Decisions[j].a = Decisions[j].b
              /\ Decisions[k].a # Decisions[k].b )
            => Decisions[j].b # Decisions[k].b

NoCe == <<"n", "o", " ", "c", "e">>

\* What migrate_repo does after it has resolved the source project.
AfterSourceOps ==
    TransferOps \cup
    {"ce_project", "exists", "absent", "update_ci_includes", "update_file",
     "reconcile_issues", "warning_count", "warning_unmatched", "matched", "skipped",
     "notes", "post_note", "close", "returned"}

\* C19: a record whose source project is not found by its path ends with the
\* error of line 380, with no export, download, import, file update or issue
\* read or write; main catches the error and the next record is attempted.
C19_SourceNotFound ==
    Recorded =>
        \A r \in 1..Len(cfg.repos) :
            LET log == RecordOf(r)
                repo_path == repo_path_of(cfg.repos[r])
            IN /\ (parts_of(repo_path) # <<>> /\ repo_path # CE_PROJECT_PATH) =>
                      /\ \A n \in 1..Len(log) : log[n].op \notin AfterSourceOps
                      /\ (idx = r /\ pc # "loop") =>
                             pc \in {"eg_get", "eg_post", "eg_reget", "ce_get"}
                      /\ (idx > r \/ pc = "done") =>
                             /\ log[Len(log)].op = "failed"
                             /\ log[Len(log)].path \in {NoCe, <<"g", "e", "t">>, <<"p", "o", "s", "t">>,
                                                         <<"c", "o", "n", "f", "l", "i", "c", "t">>}
               /\ \A n \in PositionsOf("failed", log) :
                      log[n].path = NoCe =>
                          /\ n = Len(log)
                          /\ repo_path # CE_PROJECT_PATH
                          /\ idx > r \/ pc = "done"
                          /\ (pc = "done" /\ r < Len(cfg.repos)) =>
                                 PositionsOf("migrate_repo", RecordOf(r + 1)) # {}

\* C19 witness: a record's source project was not found, and the next
\* record was migrated to the end.
C19_Witness ==
    /\ Recorded /\ pc = "done"
    /\ \E r \in 1..(Len(cfg.repos) - 1) :
          /\ RecordOf(r)[Len(RecordOf(r))].op = "failed"
          /\ RecordOf(r)[Len(RecordOf(r))].path = NoCe
          /\ PositionsOf("reconcile_issues", RecordOf(r + 1)) # {}
          /\ PositionsOf("returned", RecordOf(r + 1)) # {}

\* The source issue with internal id iid carries a note that is, or with
\* stripped set that strips to, "Migrated to EE: " and the address.
CarriesNote(issues, iid, address, stripped) ==
    \E q \in 1..Len(issues) :
        /\ issues[q].iid = iid
        /\ \E m \in 1..Len(issues[q].notes) :
               (IF stripped THEN strip(issues[q].notes[m]) ELSE issues[q].notes[m])
                   = MIGRATED \o address

\* Given whether notes are compared after stripping: the issues this run
\* has closed carry the note of their counterpart's address.
ClosedWithNote(stripped) ==
    Recorded =>
        \A n \in 1..Len(calls) :
            (calls[n].op = "close" /\ calls[n].b = 0) =>
                CarriesNote(ce_issues, calls[n].a, calls[n].path, stripped)

\* One step: an issue that is closed carries the note already; notes are
\* only added, to open issues; a failed note post leaves the issue as it was.
NoteBeforeClose(stripped) ==
    \A q \in 1..Len(ce_issues) :
        /\ (ce_issues[q].state = "opened" /\ ce_issues'[q].state = "closed") =>
               /\ pc = "issue_put"
               /\ CarriesNote(ce_issues, ce_issues[q].iid, url, stripped)
        /\ \/ ce_issues'[q].notes = ce_issues[q].notes
           \/ /\ ce_issues[q].state = "opened"
              /\ ce_issues'[q].state = "opened"
              /\ ce_issues'[q].notes = Append(ce_issues[q].notes, MIGRATED \o url)
        /\ (pc = "note_post" /\ pc' # "issue_put") => ce_issues'[q] = ce_issues[q]

\* C20 (as claimed): a source issue the reconciler has closed carries a note
\* whose text is "Migrated to EE: <address of its counterpart>"; no issue is
\* closed before its note is posted or after the post failed.
C20_NoteBeforeClose ==
    []ClosedWithNote(FALSE) /\ [][NoteBeforeClose(FALSE)]_vars

====
